---- MODULE Spec2Model ----
(***************************************************************************)
(* A model of the AgentX workflow engine as it is written three times in   *)
(* src/scratchpad: the class-based engine (ant-agentx.ts, "ant"), the      *)
(* immutable engine (o3-mini-agentx.ts, "o3") and the function-based       *)
(* engine (deepseek-agentx-events.ts, "ds").                               *)
(*                                                                         *)
(* Part 1 models one run of a unit of work: prepare, the retry loop around *)
(* compute with its waits and its fallback (one loop per batch element),   *)
(* and finalize.  Part 2 models a flow: flow-level prepare, one            *)
(* orchestration per batch item walking the successor tables, and          *)
(* flow-level finalize.                                                    *)
(*                                                                         *)
(* The callbacks a user supplies (prepare, compute, fallback, finalize)    *)
(* are the environment: whether a compute attempt succeeds, which error it *)
(* raises and which outcome key finalize returns are chosen with \E.       *)
(***************************************************************************)
EXTENDS Integers, Sequences, FiniteSets, TLC

(***************************************************************************)
(* Bounds of the model.                                                    *)
(***************************************************************************)
\* largest retry policy (maxRetries) a unit is constructed with
MaxRetriesBound == 3
\* largest number of elements a batch unit's prepare returns
MaxItems == 2

(***************************************************************************)
(* Values.                                                                 *)
(***************************************************************************)
Null == "null"
Undefined == "undefined"
NoValue == "none"
NoError == [isError |-> FALSE, msg |-> "none"]

\* the flow's compute has not been invoked
NoExec == [calls |-> 0, byRun |-> 0, thrown |-> NoError]

\* no state machine, no dispatch call
NoMachine == [trans |-> <<>>, hooked |-> {}]

NoContext == [shared |-> "-", startArg |-> <<>>, started |-> FALSE,
              live |-> [shared |-> "-", state |-> {}, event |-> "-"], seen |-> <<>>]

\* the state made by nodeToState has not been executed
NoAdapted == [done |-> FALSE, prepCalls |-> 0, calls |-> 0, fails |-> 0, waits |-> 0,
              fbCalls |-> 0, postCalls |-> 0, postArgs |-> <<NoValue, NoValue>>,
              postResult |-> NoValue, threw |-> NoError, stored |-> NoError]

NoDispatch == [ev |-> "-", from |-> "-", pick |-> 0, pc |-> "idle", log |-> <<>>,
               outcome |-> "-", error |-> NoError]

\* no flow has been created from a returned node object
NoRun == [start |-> 0, isBase |-> FALSE, key |-> "-", phases |-> <<>>,
          thrown |-> NoError, next |-> 0]

\* no agent, no call on it, no executeWithRetry call
NoAgent == [maxSteps |-> 0, currentStep |-> 0, logs |-> <<>>]

NoCalls == [made |-> 0, ok |-> 0]

NotThrown == [name |-> "-", msg |-> "none"]

NoCall == [op |-> "-", threw |-> NotThrown, before |-> NoAgent]

NoRetry == [pc |-> "idle", retries |-> 0, i |-> 0, plan |-> 0, calls |-> 0,
            delays |-> <<>>, lastError |-> Null, result |-> NoValue, thrown |-> NotThrown]

\* no registration call has been made
NoReg == [on |-> 0, key |-> "-", target |-> 0, via |-> "-", had |-> FALSE,
          warned |-> FALSE, ret |-> 0, retIsBase |-> FALSE]

\* what compute returns when it succeeds on input x
ExecVal(x) == "exec(" \o x \o ")"

\* what a fallback that recovers returns for input x and error e
FallbackVal(x, e) == "fallback(" \o x \o "," \o e.msg \o ")"

\* the value a compute attempt throws: call number c of the element's loop,
\* an Error instance or any other thrown value
Thrown(c, isErr) == [isError |-> isErr, msg |-> "e" \o ToString(c)]

\* ds: error instanceof Error ? error : new Error(String(error))
TypedError(e) == IF e.isError THEN e ELSE [isError |-> TRUE, msg |-> "String(" \o e.msg \o ")"]

\* o3: new Error("Unreachable execution in Node.")
UnreachableError == [isError |-> TRUE, msg |-> "Unreachable execution"]

(***************************************************************************)
(* The unit classes of the three engines.                                  *)
(***************************************************************************)
UnitKinds ==
    { [impl |-> "ant", cls |-> c] :
        c \in {"Node", "AsyncNode", "BatchNode", "AsyncBatchNode", "AsyncParallelBatchNode"} }
    \cup
    { [impl |-> "o3", cls |-> c] :
        c \in {"Node", "AsyncNode", "BatchNode", "AsyncBatchNode", "AsyncParallelBatchNode"} }
    \cup
    { [impl |-> "ds", cls |-> c] : c \in {"Node", "AsyncBatchNode"} }

IsBatch(u) == u.cls \in {"BatchNode", "AsyncBatchNode", "AsyncParallelBatchNode"}

IsAsync(u) == u.impl = "ds" \/ u.cls \in {"AsyncNode", "AsyncBatchNode", "AsyncParallelBatchNode"}

\* the element loops are started together and joined with Promise.all
UsesPromiseAll(u) ==
    \/ u.impl = "ant" /\ u.cls \in {"AsyncBatchNode", "AsyncParallelBatchNode"}
    \/ u.impl = "o3" /\ u.cls = "AsyncParallelBatchNode"
    \/ u.impl = "ds" /\ u.cls = "AsyncBatchNode"

\* each element runs under the retry loop (ant: super._exec per element);
\* o3 calls execItem / execItemAsync and ds calls node.exec once per element
ElementHasRetry(u) == ~IsBatch(u) \/ u.impl = "ant"

\* (variant: every element's loop is given the first element)
ExecArgFirst(u, x) == "x1"

\* the argument compute receives for element x (ds wraps it in an array)
ExecArg(u, x) == IF u.impl = "ds" /\ IsBatch(u) THEN "[" \o x \o "]" ELSE x

\* the retry policy the loop of a unit runs under: createAsyncBatchNode
\* builds its node with createNode's defaults (maxRetries = 1, wait = 0)
LoopRetries(u, m) == IF u.impl = "ds" /\ IsBatch(u) THEN 1 ELSE m

\* (variant: the loop makes one attempt fewer)
LoopContinuesOneFewer(u, attempt, m) == attempt < m - 1

\* the loop condition: curRetry < maxRetries / attempts < maxRetries
LoopContinues(u, attempt, m) == attempt < m

\* (variant: the fallback is reached one failure early)
IsFinalAttemptEarly(u, attempt, m) == attempt = m - 2

\* (variant: the first failure already goes to the fallback)
IsFinalAttemptFirst(u, attempt, m) == attempt = 0

\* the test in the catch block that sends the error to the fallback
IsFinalAttempt(u, attempt, m) ==
    IF u.impl = "o3" /\ ~IsAsync(u)
    THEN attempt + 1 = m
    ELSE attempt = m - 1

\* whether a failed, non-final attempt is followed by a wait: the blocking
\* ant Node spins, the blocking o3 Node does not wait, the others set a timer
TakesWait(u, w) ==
    IF u.impl = "o3" /\ ~IsAsync(u) THEN FALSE ELSE w > 0

\* the error the fallback receives for the error e of the final attempt
FallbackError(u, e) == IF u.impl = "ds" THEN TypedError(e) ELSE e

\* the loop is left without any attempt (maxRetries < 1): ant returns null,
\* o3 throws, ds leaves execRes unassigned
LoopExitValue(u) == IF u.impl = "ant" THEN Null ELSE Undefined

LoopExitThrows(u) == u.impl = "o3"

(***************************************************************************)
(* State of one unit run.                                                  *)
(***************************************************************************)
VARIABLES
    unit,        \* the class of the unit that is run
    maxRetries,  \* its retry policy, as given to the constructor
    wait,        \* its inter-attempt wait
    upc,         \* where the run is: "none" (no unit yet), "new", "exec",
                 \* "post", "done", "failed"
    prepRes,     \* what prepare returned
    tasks,       \* the retry loop of each element (one element if not a batch)
    prepCalls,   \* number of calls of prepare
    postCalls,   \* number of calls of finalize
    postArgs,    \* the (prepare result, compute result) finalize received
    result,      \* what run returned (the outcome key)
    thrown       \* the error run failed with

uvars == <<unit, maxRetries, wait, upc, prepRes, tasks, prepCalls, postCalls,
           postArgs, result, thrown>>

\* State of one flow run (Part 2).
VARIABLES
    flow,        \* the class of the flow that is run
    graph,       \* the successor tables
    keyPlan,     \* environment: the outcome key each unit's finalize returns
    raising,     \* environment: the units whose run fails
    fpc,         \* "new", "orch", "post", "done", "failed"
    fitems,      \* the per-item overrides the flow's prepare returned
    orchs,       \* the orchestrations, one per item (one if not a batch)
    fprepCalls,  \* calls of the flow's own prepare
    fpostCalls,  \* calls of the flow's own finalize
    fresult,     \* what run returned
    fthrown,     \* the error run failed with
    shared,      \* the caller's shared context: its value under the key
                 \* that every unit's finalize writes
    fexec,       \* the invocations of the flow's own compute (exec)
    declared     \* the params of the units of the graph, as the caller's
                 \* node objects hold them

fvars == <<flow, graph, keyPlan, raising, fpc, fitems, orchs, fprepCalls,
           fpostCalls, fresult, fthrown, shared, fexec, declared>>

\* State of graph construction (Part 3).
VARIABLES
    bimpl,       \* the engine whose construction API is called
    tables,      \* the successor table of every node object, by handle
    objs,        \* the other fields of every node object, by handle: class,
                 \* params, retry policy and (of a flow) start node
    regs,        \* number of registration calls made
    lastReg,     \* the latest registration call and what it returned
    diags,       \* the diagnostics emitted (console.warn), in order
    overwrites,  \* number of calls made under a key that had a successor
    started      \* the run of a flow created from the node object the latest
                 \* call returned: its first node-run

bvars == <<bimpl, tables, objs, regs, lastReg, diags, overwrites, started>>

\* State of a BaseAgent (Part 4).
VARIABLES
    agent,       \* the agent object: maxSteps, currentStep, logs
    acalls,      \* validateStep calls since construction or the latest reset:
                 \* how many were made and how many returned
    alast,       \* the latest call on the agent, what it threw and the agent
                 \* as it was before the call
    aresets,     \* number of reset calls
    retry        \* the executeWithRetry call: its arguments, position and outcome

avars == <<agent, acalls, alast, aresets, retry>>

\* State of a state machine (Part 5).
VARIABLES
    machine,     \* the machine as created: the transitions of every state and
                 \* whether the states have onExit and onEnter hooks
    mcur,        \* currentState
    disp,        \* the latest dispatch call: its event, where it is, the
                 \* hooks it has run, its outcome
    mcount,      \* number of dispatch calls
    mctx,        \* the machine's contexts: the shared value of its closure,
                 \* the start call, the context object in use and what every
                 \* hook was handed
    adapted      \* the execute of the state made from the unit by nodeToState

mvars == <<machine, mcur, disp, mcount, mctx, adapted>>

vars == <<uvars, fvars, bvars, avars, mvars>>

\* an element's loop before it is started
NewTask(x, k, b) ==
    [ input   |-> x,          \* the element (the prepare result if not a batch)
      plan    |-> k,          \* environment: compute fails on its first k calls
      throwsError |-> b,      \* environment: compute throws Error instances

      pc      |-> "idle",     \* idle, loop, running, wait, fallback, done, failed
      attempt |-> 0,          \* the loop counter
      calls   |-> 0,          \* compute invocations
      fails   |-> 0,          \* failed compute invocations
      waits   |-> 0,          \* waits taken
      fbCalls |-> 0,          \* fallback invocations
      fbArgs  |-> <<NoValue, NoError>>,    \* what the fallback received
      lastErr |-> NoError,    \* the error of the latest failed attempt
      res     |-> NoValue,    \* the element's result
      err     |-> NoError,    \* the error the loop failed with
      order   |-> 0 ]         \* position in the order of completion

Items(n) == [i \in 1..n |-> "x" \o ToString(i)]

NTasks == Len(tasks)

Finished(t) == t.pc \in {"done", "failed"}

NumFinished == Cardinality({i \in 1..NTasks : Finished(tasks[i])})

UnitInit ==
    /\ unit \in UnitKinds
    /\ maxRetries = 1
    /\ wait = 0
    /\ upc = "none"
    /\ prepRes = <<>>
    /\ tasks = <<>>
    /\ prepCalls = 0
    /\ postCalls = 0
    /\ postArgs = <<NoValue, NoValue>>
    /\ result = NoValue
    /\ thrown = NoError
    \* no flow is run
    /\ flow = [impl |-> "o3", cls |-> "Flow"]
    /\ graph = {}
    /\ keyPlan = [n \in {"A", "B", "C"} |-> Undefined]
    /\ raising = {}
    /\ fpc = "idle"
    /\ fitems = <<>>
    /\ orchs = <<>>
    /\ fprepCalls = 0
    /\ fpostCalls = 0
    /\ fresult = NoValue
    /\ fthrown = NoError
    /\ shared = NoValue
    /\ fexec = NoExec
    /\ declared = <<>>
    \* no graph is under construction
    /\ bimpl = "ant"
    /\ tables = <<>>
    /\ objs = <<>>
    /\ regs = 0
    /\ lastReg = NoReg
    /\ diags = <<>>
    /\ overwrites = 0
    /\ started = NoRun
    \* no agent is constructed
    /\ agent = NoAgent
    /\ acalls = NoCalls
    /\ alast = NoCall
    /\ aresets = 0
    /\ retry = NoRetry
    \* no state machine is created
    /\ machine = NoMachine
    /\ mcur = "-"
    /\ disp = NoDispatch
    /\ mcount = 0
    /\ mctx = NoContext
    /\ adapted = NoAdapted

(***************************************************************************)
(* The constructors: new Node(maxRetries, wait), createNode({maxRetries,   *)
(* wait, ...}).  None of them checks the retry policy it is given.         *)
(***************************************************************************)
ConstructorAccepts(u, m, w) == TRUE

Construct ==
    /\ upc = "none"
    /\ \E m \in 0..MaxRetriesBound, w \in {0, 1} :
          IF ConstructorAccepts(unit, m, w)
          THEN maxRetries' = m /\ wait' = w /\ upc' = "new"
          ELSE upc' = "rejected" /\ UNCHANGED <<maxRetries, wait>>
    /\ UNCHANGED <<fvars, bvars, avars, mvars>>
    /\ UNCHANGED <<unit, prepRes, tasks, prepCalls, postCalls, postArgs, result, thrown>>

(***************************************************************************)
(* run / _run / _runAsync: prepare is called and returns.                  *)
(***************************************************************************)
\* the numbers of leading failures worth telling apart for element loops
Plans == IF ElementHasRetry(unit) THEN 0..LoopRetries(unit, maxRetries) ELSE {0, 1}

Prep ==
    /\ upc = "new"
    /\ prepCalls' = prepCalls + 1
    /\ \E n \in 0..MaxItems, b \in BOOLEAN :
       \E pl \in [1..(IF IsBatch(unit) THEN n ELSE 1) -> Plans] :
          /\ prepRes' = IF IsBatch(unit) THEN Items(n) ELSE <<"p">>
          /\ tasks' = IF IsBatch(unit)
                      THEN [i \in 1..n |-> NewTask(Items(n)[i], pl[i], b)]
                      ELSE <<NewTask("p", pl[1], b)>>
    /\ upc' = "exec"
    /\ UNCHANGED <<fvars, bvars, avars, mvars>>
    /\ UNCHANGED <<unit, maxRetries, wait, postCalls, postArgs, result, thrown>>

\* element i's loop may be entered: map calls the loops in index order, a
\* sequential batch enters one only when the one before has returned
MayStart(i) ==
    /\ \A j \in 1..(i - 1) : tasks[j].pc # "idle"
    /\ UsesPromiseAll(unit) \/ \A j \in 1..(i - 1) : tasks[j].pc = "done"

\* a suspended loop is resumed only after the synchronous map has called
\* every element's loop
MayResume(i) ==
    UsesPromiseAll(unit) => \A j \in 1..NTasks : tasks[j].pc # "idle"

\* (variant: every wait is a spin loop)
WaitBlocksAlways(u) == TRUE

\* the wait holds the thread: the blocking ant Node spins on the clock until
\* the wait is over; the others set a timer and give the thread up
WaitBlocks(u) == u.impl = "ant" /\ ~IsAsync(u)

\* no other element's loop is spinning
NotBlocked(i) ==
    \A j \in 1..NTasks : (j # i /\ tasks[j].pc = "wait") => ~WaitBlocks(unit)

\* the loop is entered or re-entered: its condition is evaluated and compute
\* is invoked, or the loop is left without a result
EnterLoop(t) ==
    IF ~ElementHasRetry(unit)
    THEN [t EXCEPT !.pc = "running", !.calls = @ + 1]
    ELSE IF LoopContinues(unit, t.attempt, LoopRetries(unit, maxRetries))
    THEN [t EXCEPT !.pc = "running", !.calls = @ + 1]
    ELSE IF LoopExitThrows(unit)
    THEN [t EXCEPT !.pc = "failed", !.err = UnreachableError, !.order = NumFinished + 1]
    ELSE [t EXCEPT !.pc = "done", !.res = LoopExitValue(unit), !.order = NumFinished + 1]

StartAttempt(i) ==
    /\ upc \in {"exec", "failed"}
    /\ i \in 1..NTasks
    /\ NotBlocked(i)
    /\ \/ tasks[i].pc = "idle" /\ MayStart(i)
       \/ tasks[i].pc = "loop"
    /\ tasks' = [tasks EXCEPT ![i] = EnterLoop(tasks[i])]
    /\ UNCHANGED <<fvars, bvars, avars, mvars>>
    /\ UNCHANGED <<unit, maxRetries, wait, upc, prepRes, prepCalls, postCalls,
                   postArgs, result, thrown>>

\* compute returns
ExecOk(i) ==
    /\ upc \in {"exec", "failed"}
    /\ i \in 1..NTasks
    /\ NotBlocked(i)
    /\ tasks[i].pc = "running"
    /\ tasks[i].calls > tasks[i].plan
    /\ MayResume(i)
    /\ tasks' = [tasks EXCEPT ![i] =
                   [@ EXCEPT !.pc = "done",
                             !.res = ExecVal(ExecArg(unit, tasks[i].input)),
                             !.order = NumFinished + 1]]
    /\ UNCHANGED <<fvars, bvars, avars, mvars>>
    /\ UNCHANGED <<unit, maxRetries, wait, upc, prepRes, prepCalls, postCalls,
                   postArgs, result, thrown>>

\* the catch block of the loop, for the error e of attempt t.attempt
Caught(t, e) ==
    LET t1 == [t EXCEPT !.fails = @ + 1, !.lastErr = e] IN
    IF ~ElementHasRetry(unit)
    THEN [t1 EXCEPT !.pc = "failed", !.err = e, !.order = NumFinished + 1]
    ELSE IF IsFinalAttempt(unit, t.attempt, LoopRetries(unit, maxRetries))
    THEN [t1 EXCEPT !.pc = "fallback",
                    !.fbCalls = @ + 1,
                    !.fbArgs = <<t.input, FallbackError(unit, e)>>]
    ELSE IF TakesWait(unit, wait)
    THEN [t1 EXCEPT !.pc = "wait", !.waits = @ + 1]
    ELSE [t1 EXCEPT !.pc = "loop", !.attempt = @ + 1]

\* compute throws
ExecFail(i) ==
    /\ upc \in {"exec", "failed"}
    /\ i \in 1..NTasks
    /\ NotBlocked(i)
    /\ tasks[i].pc = "running"
    /\ tasks[i].calls <= tasks[i].plan
    /\ MayResume(i)
    /\ tasks' = [tasks EXCEPT ![i] =
                   Caught(@, Thrown(tasks[i].calls, tasks[i].throwsError))]
    /\ UNCHANGED <<fvars, bvars, avars, mvars>>
    /\ UNCHANGED <<unit, maxRetries, wait, upc, prepRes, prepCalls, postCalls,
                   postArgs, result, thrown>>

\* the wait is over
WaitDone(i) ==
    /\ upc \in {"exec", "failed"}
    /\ i \in 1..NTasks
    /\ NotBlocked(i)
    /\ tasks[i].pc = "wait"
    /\ tasks' = [tasks EXCEPT ![i] = [@ EXCEPT !.pc = "loop", !.attempt = @ + 1]]
    /\ UNCHANGED <<fvars, bvars, avars, mvars>>
    /\ UNCHANGED <<unit, maxRetries, wait, upc, prepRes, prepCalls, postCalls,
                   postArgs, result, thrown>>

\* the fallback returns a value
FallbackOk(i) ==
    /\ upc \in {"exec", "failed"}
    /\ i \in 1..NTasks
    /\ NotBlocked(i)
    /\ tasks[i].pc = "fallback"
    /\ tasks' = [tasks EXCEPT ![i] =
                   [@ EXCEPT !.pc = "done",
                             !.res = FallbackVal(tasks[i].fbArgs[1], tasks[i].fbArgs[2]),
                             !.order = NumFinished + 1]]
    /\ UNCHANGED <<fvars, bvars, avars, mvars>>
    /\ UNCHANGED <<unit, maxRetries, wait, upc, prepRes, prepCalls, postCalls,
                   postArgs, result, thrown>>

\* the fallback throws: the error it received (the default fallback) or
\* an error of its own
FallbackFail(i) ==
    /\ upc \in {"exec", "failed"}
    /\ i \in 1..NTasks
    /\ NotBlocked(i)
    /\ tasks[i].pc = "fallback"
    /\ \E e \in {tasks[i].fbArgs[2], [isError |-> TRUE, msg |-> "fallback failed"]} :
          tasks' = [tasks EXCEPT ![i] =
                      [@ EXCEPT !.pc = "failed", !.err = e, !.order = NumFinished + 1]]
    /\ UNCHANGED <<fvars, bvars, avars, mvars>>
    /\ UNCHANGED <<unit, maxRetries, wait, upc, prepRes, prepCalls, postCalls,
                   postArgs, result, thrown>>

\* (variant: the results in the order the elements completed)
JoinedByCompletion ==
    IF IsBatch(unit)
    THEN [k \in 1..NTasks |-> tasks[CHOOSE i \in 1..NTasks : tasks[i].order = k].res]
    ELSE tasks[1].res

\* the prepare result as finalize and the loops receive it
PrepValue == IF IsBatch(unit) THEN prepRes ELSE prepRes[1]

\* the compute result handed to finalize, by input index
JoinedResult ==
    IF IsBatch(unit) THEN [i \in 1..NTasks |-> tasks[i].res] ELSE tasks[1].res

\* _exec has returned: finalize is called with the compute result
JoinOk ==
    /\ upc = "exec"
    /\ \A i \in 1..NTasks : tasks[i].pc = "done"
    /\ postCalls' = postCalls + 1
    /\ postArgs' = <<PrepValue, JoinedResult>>
    /\ upc' = "post"
    /\ UNCHANGED <<fvars, bvars, avars, mvars>>
    /\ UNCHANGED <<unit, maxRetries, wait, prepRes, tasks, prepCalls, result, thrown>>

\* (variant: the error is replaced on its way out)
EscapingErrorReplaced(u, e) == [isError |-> TRUE, msg |-> "node failed"]

\* the error run fails with when element loop i has failed with error e: the
\* ds batch node's exec sits in createNode's own loop, whose default
\* fallback rethrows the typed error
EscapingError(u, e) == IF u.impl = "ds" /\ IsBatch(u) THEN TypedError(e) ELSE e

\* _exec has thrown (Promise.all rejects with the first rejection): run fails
JoinFail ==
    /\ upc = "exec"
    /\ \E i \in 1..NTasks :
          /\ tasks[i].pc = "failed"
          /\ \A j \in 1..NTasks : tasks[j].pc = "failed" => tasks[i].order <= tasks[j].order
          /\ thrown' = EscapingError(unit, tasks[i].err)
    /\ upc' = "failed"
    /\ UNCHANGED <<fvars, bvars, avars, mvars>>
    /\ UNCHANGED <<unit, maxRetries, wait, prepRes, tasks, prepCalls, postCalls,
                   postArgs, result>>

OutcomeKeys == {"success", "done", "default", Undefined}

\* finalize returns an outcome key, which run returns
PostOk ==
    /\ upc = "post"
    /\ \E k \in OutcomeKeys : result' = k
    /\ upc' = "done"
    /\ UNCHANGED <<fvars, bvars, avars, mvars>>
    /\ UNCHANGED <<unit, maxRetries, wait, prepRes, tasks, prepCalls, postCalls,
                   postArgs, thrown>>

UnitNext ==
    \/ Construct
    \/ Prep
    \/ \E i \in 1..MaxItems : StartAttempt(i)
    \/ \E i \in 1..MaxItems : ExecOk(i)
    \/ \E i \in 1..MaxItems : ExecFail(i)
    \/ \E i \in 1..MaxItems : WaitDone(i)
    \/ \E i \in 1..MaxItems : FallbackOk(i)
    \/ \E i \in 1..MaxItems : FallbackFail(i)
    \/ JoinOk
    \/ JoinFail
    \/ PostOk

(***************************************************************************)
(* Part 2: flows.                                                          *)
(*                                                                         *)
(* The graph is a set of edges <<unit, outcome key, successor>>, at most   *)
(* one per unit and key.  A node-run inside a flow is one run of Part 1;   *)
(* here only its start and its outcome are told apart: it returns the      *)
(* outcome key of its finalize, or it fails with an error.  What each      *)
(* unit's callbacks do is fixed for a run by the environment: keyPlan[n]   *)
(* is the key unit n's finalize returns, raising is the set of units whose *)
(* run fails.                                                              *)
(***************************************************************************)
\* largest number of per-item overrides a batch flow's prepare returns
MaxBatch == 2
\* cap on the node-runs of one orchestration (a cyclic graph never ends)
MaxNodeRuns == 3

Nodes == {"A", "B", "C"}

NoNode == "-"

TableKeys == {"default", "success"}

FlowOutcomeKeys == {"success", "default", "done", Undefined, Null}

FlowKinds ==
    { [impl |-> i, cls |-> c] :
        i \in {"ant", "o3"},
        c \in {"Flow", "BatchFlow", "AsyncFlow", "AsyncBatchFlow", "AsyncParallelBatchFlow"} }
    \cup
    { [impl |-> "ds", cls |-> c] : c \in {"Flow", "AsyncFlow"} }

\* the flow's prepare returns a sequence of per-item overrides
IsBatchFlow(f) ==
    \/ f.cls \in {"BatchFlow", "AsyncBatchFlow", "AsyncParallelBatchFlow"}
    \/ f.impl = "ds" /\ f.cls = "AsyncFlow"

\* the orchestrations are started together and joined with Promise.all
OrchestratesInParallel(f) ==
    \/ f.cls = "AsyncParallelBatchFlow"
    \/ f.impl = "ds" /\ f.cls = "AsyncFlow"

\* the flow has prepare and finalize phases of its own (createFlow has none)
HasLifecycle(f) == f.impl # "ds"

\* structuredClone copies an object's own data properties into a plain
\* object and does not walk the prototype chain: the clone of a class
\* instance has no methods, and calling curr.setParams on it throws a
\* TypeError.  o3 calls setParams on the node itself; ds does not call it.
SetParamsCallable(f) == f.impl # "ant"

CloneTypeError == [isError |-> TRUE, msg |-> "curr.setParams is not a function"]

NodeRunError(n) == [isError |-> TRUE, msg |-> "run of " \o n \o " failed"]

\* orchestrateAsync of o3 catches what a node-run throws, logs it and goes on
\* with action = undefined
SwallowsNodeErrors(f) ==
    f.impl = "o3" /\ f.cls \in {"AsyncFlow", "AsyncBatchFlow", "AsyncParallelBatchFlow"}

\* (variant: the key is looked up as it is)
ActionKeyRaw(f, k) == k

\* the successor-table key getNextNode looks up for finalize's return value
ActionKey(f, k) ==
    CASE f.impl = "ant" -> IF k \in {Undefined, Null} THEN "default" ELSE k
      [] f.impl = "o3"  -> IF k \in {Undefined, Null} THEN "default" ELSE k
      [] f.impl = "ds"  -> IF k = Undefined THEN "default" ELSE k

TableOf(g, n) == {e[2] : e \in {x \in g : x[1] = n}}

\* (variant: every miss falls through to the default successor)
SuccessorOrDefault(g, n, k) ==
    IF k \in TableOf(g, n)
    THEN (CHOOSE e \in g : e[1] = n /\ e[2] = k)[3]
    ELSE IF "default" \in TableOf(g, n)
    THEN (CHOOSE e \in g : e[1] = n /\ e[2] = "default")[3]
    ELSE NoNode

\* curr.successors[key]
Successor(g, n, k) ==
    IF k \in TableOf(g, n)
    THEN (CHOOSE e \in g : e[1] = n /\ e[2] = k)[3]
    ELSE NoNode

\* the key getNextNode names in its "Flow ends" warning
WarnedKey(f, k) == IF f.impl = "ant" THEN k ELSE ActionKey(f, k)

NoWarning == "(no warning)"

\* the graphs flows are run on: a single unit, the two-unit chain under
\* "success" and under "default", a three-unit chain, a self-loop beside a
\* branch, and a two-unit cycle
Acyclic == {
    {},
    {<<"A", "success", "B">>},
    {<<"A", "default", "B">>},
    {<<"A", "default", "B">>, <<"B", "success", "C">>} }

Cyclic == {
    {<<"A", "success", "B">>, <<"A", "default", "A">>},
    {<<"A", "default", "B">>, <<"B", "default", "A">>} }

\* o3 nodes are immutable values: addSuccessor returns a new node that holds
\* the successor as it then was, so no o3 node reaches itself
Graphs(f) == IF f.impl = "o3" THEN Acyclic ELSE Acyclic \cup Cyclic

StartNode == "A"

FlowPostValue == "flowResult"


(***************************************************************************)
(* Configuration (params).  A configuration maps every key to a value or   *)
(* to Absent.  The keys are named after who defines them: the unit (u),    *)
(* every item's override (i), the flow (f); key "i1" is defined by the     *)
(* override of item 1 alone.                                               *)
(***************************************************************************)
Absent == "absent"

ConfigKeys == {"u", "i", "f", "ui", "uf", "if", "uif", "i1"}

UnitDefined == {"u", "ui", "uf", "uif"}

ItemDefined(i) == {"i", "ui", "if", "uif"} \cup (IF i = 1 THEN {"i1"} ELSE {})

FlowDefined == {"f", "uf", "if", "uif"}

NoParams == [k \in ConfigKeys |-> Absent]

\* the params unit n was given before the flow is run
OwnParams(n) == [k \in ConfigKeys |-> IF k \in UnitDefined THEN "own" \o n ELSE Absent]

\* the override the flow's prepare returns for item i
ItemOverride(i) ==
    [k \in ConfigKeys |-> IF k \in ItemDefined(i) THEN "item" \o ToString(i) ELSE Absent]

\* the flow's own params
FlowParams == [k \in ConfigKeys |-> IF k \in FlowDefined THEN "flow" ELSE Absent]

\* (variant: the spread the other way round)
MergeBaseWins(base, over) ==
    [k \in ConfigKeys |-> IF base[k] # Absent THEN base[k] ELSE over[k]]

\* { ...base, ...over }
Merge(base, over) ==
    [k \in ConfigKeys |-> IF over[k] # Absent THEN over[k] ELSE base[k]]

\* the params an orchestration applies to its units: _orch(shared, params)
\* uses params || { ...this.params }, orchestrate merges the overrides it
\* is given over this.params; a batch flow passes { ...this.params, ...bp }
EffectiveParams(f, i) ==
    LET given == IF IsBatchFlow(f) THEN Merge(FlowParams, ItemOverride(i)) ELSE NoParams
    IN  CASE f.impl = "ant" -> IF IsBatchFlow(f) THEN given ELSE Merge(NoParams, FlowParams)
          [] f.impl = "o3"  -> Merge(FlowParams, given)
          [] f.impl = "ds"  -> NoParams

\* (variant: what the unit defined for itself is kept)
SetParamsKeepingOwn(impl, own, p) == Merge(p, own)

\* the params of a unit after setParams(p): ant assigns { ...p }, o3 clones
\* the unit with params = p, ds assigns p's keys over its own
SetParams(impl, own, p) ==
    IF impl = "ds" THEN Merge(own, p) ELSE p

\* the params unit n has during a node-run of an orchestration with
\* effective params p: createFlow does not call setParams
ParamsInRun(f, n, p) ==
    IF f.impl = "ds" THEN OwnParams(n) ELSE SetParams(f.impl, OwnParams(n), p)

NewOrch ==
    [ pc     |-> "idle",       \* idle, running, ended, failed
      params |-> NoParams,     \* the params it applies to its units
      seen   |-> <<>>,         \* the params each unit had during its run
      cur    |-> NoNode,       \* the unit whose run is in progress
      path   |-> <<>>,         \* the units run so far, in order
      keys   |-> <<>>,         \* the values the loop routed on, in order: what
                               \* each run returned (undefined for a swallowed error)
      warned |-> NoWarning,    \* the key reported as unmatched
      err    |-> NoError,      \* the error the orchestration failed with
      order  |-> 0 ]           \* position in the order of completion

NOrchs == Len(orchs)

OrchFinished(o) == o.pc \in {"ended", "failed"}

NumOrchFinished == Cardinality({i \in 1..NOrchs : OrchFinished(orchs[i])})

FlowInit ==
    /\ flow \in FlowKinds
    /\ graph \in Graphs(flow)
    /\ keyPlan \in [Nodes -> FlowOutcomeKeys]
    /\ raising \in {{}} \cup {{n} : n \in Nodes}
    /\ fpc = "new"
    /\ fitems = <<>>
    /\ orchs = <<>>
    /\ fprepCalls = 0
    /\ fpostCalls = 0
    /\ fresult = NoValue
    /\ fthrown = NoError
    /\ shared = NoValue
    /\ fexec = NoExec
    /\ declared = [n \in Nodes |-> OwnParams(n)]
    \* no unit is run on its own
    /\ unit = [impl |-> "o3", cls |-> "Node"]
    /\ maxRetries = 1
    /\ wait = 0
    /\ upc = "idle"
    /\ prepRes = <<>>
    /\ tasks = <<>>
    /\ prepCalls = 0
    /\ postCalls = 0
    /\ postArgs = <<NoValue, NoValue>>
    /\ result = NoValue
    /\ thrown = NoError
    \* no graph is under construction
    /\ bimpl = "ant"
    /\ tables = <<>>
    /\ objs = <<>>
    /\ regs = 0
    /\ lastReg = NoReg
    /\ diags = <<>>
    /\ overwrites = 0
    /\ started = NoRun
    \* no agent is constructed
    /\ agent = NoAgent
    /\ acalls = NoCalls
    /\ alast = NoCall
    /\ aresets = 0
    /\ retry = NoRetry
    \* no state machine is created
    /\ machine = NoMachine
    /\ mcur = "-"
    /\ disp = NoDispatch
    /\ mcount = 0
    /\ mctx = NoContext
    /\ adapted = NoAdapted

(***************************************************************************)
(* run / _run / runAsync of a flow: its prepare is called and returns.     *)
(* createFlow has no prepare; createAsyncFlow uses the start node's.       *)
(***************************************************************************)
\* (variant: the run of a plain unit, which calls _exec between prep and post)
ExecCallsOfUnitRun(f) == 1

\* the calls of this.exec a flow's run makes between its prepare and its
\* finalize: Flow._run / Flow.run replace BaseNode's and call _orch /
\* orchestrate where BaseNode calls _exec; createFlow has no exec
ExecCallsOfRun(f) == 0

FlowPrep ==
    /\ fpc = "new"
    /\ fprepCalls' = IF HasLifecycle(flow) \/ IsBatchFlow(flow)
                     THEN fprepCalls + 1 ELSE fprepCalls
    /\ \E n \in 0..MaxBatch :
          /\ fitems' = IF IsBatchFlow(flow) THEN [i \in 1..n |-> "item" \o ToString(i)]
                       ELSE <<>>
          /\ orchs' = IF IsBatchFlow(flow) THEN [i \in 1..n |-> NewOrch] ELSE <<NewOrch>>
    /\ fpc' = "orch"
    /\ fexec' = [fexec EXCEPT !.byRun = @ + ExecCallsOfRun(flow)]
    /\ UNCHANGED <<uvars, bvars, avars, mvars>>
    /\ UNCHANGED <<flow, graph, keyPlan, raising, declared, shared, fpostCalls, fresult, fthrown>>

\* (variant: every item's orchestration may be entered at once)
MayEnterAnyTime(i) == TRUE

\* orchestration i may be entered: map calls them in index order; forEach
\* and for-await enter one only when the one before has returned
MayEnter(i) ==
    /\ \A j \in 1..(i - 1) : orchs[j].pc # "idle"
    /\ OrchestratesInParallel(flow) \/ \A j \in 1..(i - 1) : orchs[j].pc = "ended"

\* a suspended orchestration is resumed only after map has entered them all
MayGoOn(i) ==
    OrchestratesInParallel(flow) => \A j \in 1..NOrchs : orchs[j].pc # "idle"

\* the loop body up to the start of unit n's run: setParams, then the run
RunNode(o, n) ==
    IF SetParamsCallable(flow)
    THEN [o EXCEPT !.pc = "running", !.cur = n, !.path = Append(@, n),
                   !.seen = Append(@, ParamsInRun(flow, n, o.params))]
    ELSE [o EXCEPT !.pc = "failed", !.cur = NoNode, !.err = CloneTypeError,
                   !.order = NumOrchFinished + 1]

\* (variant: setParams assigns to the node object it is called on, and it
\* is called on the declared node)
AfterSetParamsInPlace(f, d, n, p) == [d EXCEPT ![n] = SetParams(f.impl, d[n], p)]

\* the declared nodes' params after the loop's setParams(p) for unit n: ant
\* calls it on a structuredClone of the node, o3's setParams returns
\* this.clone({ params }) and the loop goes on with that clone, createFlow
\* does not call it; none of them assigns to a declared node
AfterSetParams(f, d, n, p) == d

\* the declared nodes' params after a step that takes an orchestration from
\* o to o2: the loop body has called setParams when another unit is run
DeclaredAfter(f, d, o, o2) ==
    IF Len(o2.path) > Len(o.path) THEN AfterSetParams(f, d, o2.cur, o2.params) ELSE d

\* _orch / orchestrate / createFlow.run is entered: curr = start
OrchEnter(i) ==
    /\ fpc \in {"orch", "failed"}
    /\ i \in 1..NOrchs
    /\ orchs[i].pc = "idle"
    /\ MayEnter(i)
    /\ orchs' = [orchs EXCEPT ![i] =
                   RunNode([@ EXCEPT !.params = EffectiveParams(flow, i)], StartNode)]
    /\ declared' = DeclaredAfter(flow, declared, orchs[i], orchs'[i])
    /\ UNCHANGED <<uvars, bvars, avars, mvars>>
    /\ UNCHANGED <<flow, graph, keyPlan, raising, shared, fexec, fpc, fitems, fprepCalls,
                   fpostCalls, fresult, fthrown>>

\* getNextNode and the rest of the loop, for the value k the run returned
Route(o, k) ==
    LET key == ActionKey(flow, k)
        nxt == Successor(graph, o.cur, key)
        o1  == [o EXCEPT !.keys = Append(@, k)]
    IN  IF nxt # NoNode
        THEN RunNode(o1, nxt)
        ELSE [o1 EXCEPT !.pc = "ended", !.cur = NoNode,
                        !.warned = IF TableOf(graph, o.cur) # {}
                                   THEN WarnedKey(flow, k) ELSE NoWarning,
                        !.order = NumOrchFinished + 1]

\* no orchestration makes more than MaxNodeRuns node-runs
WithinCap(o) == Len(o.path) <= MaxNodeRuns

\* what a unit run for item i writes into its context, in its finalize
WrittenBy(i) == "by" \o ToString(i)

\* the context object the units of an orchestration are run on is the
\* caller's own: every _orch / orchestrate call is handed the one shared;
\* createAsyncFlow runs each item on a copy { ...shared, ...item } that is
\* dropped when the item is done
WritesReachCaller(f) == ~(f.impl = "ds" /\ f.cls = "AsyncFlow")

\* the run of the current unit returns its outcome key
NodeReturn(i) ==
    /\ fpc \in {"orch", "failed"}
    /\ i \in 1..NOrchs
    /\ orchs[i].pc = "running"
    /\ orchs[i].cur \notin raising
    /\ MayGoOn(i)
    /\ WithinCap(Route(orchs[i], keyPlan[orchs[i].cur]))
    /\ orchs' = [orchs EXCEPT ![i] = Route(@, keyPlan[orchs[i].cur])]
    /\ shared' = IF WritesReachCaller(flow) THEN WrittenBy(i) ELSE shared
    /\ declared' = DeclaredAfter(flow, declared, orchs[i], orchs'[i])
    /\ UNCHANGED <<uvars, bvars, avars, mvars>>
    /\ UNCHANGED <<flow, graph, keyPlan, raising, fexec, fpc, fitems, fprepCalls,
                   fpostCalls, fresult, fthrown>>

\* what the loop does with the error e of a node-run
OnNodeError(o, e) ==
    IF SwallowsNodeErrors(flow)
    THEN Route(o, Undefined)
    ELSE [o EXCEPT !.pc = "failed", !.cur = NoNode, !.err = e,
                   !.order = NumOrchFinished + 1]

\* the run of the current unit fails
NodeThrow(i) ==
    /\ fpc \in {"orch", "failed"}
    /\ i \in 1..NOrchs
    /\ orchs[i].pc = "running"
    /\ orchs[i].cur \in raising
    /\ MayGoOn(i)
    /\ WithinCap(OnNodeError(orchs[i], NodeRunError(orchs[i].cur)))
    /\ orchs' = [orchs EXCEPT ![i] = OnNodeError(@, NodeRunError(orchs[i].cur))]
    /\ declared' = DeclaredAfter(flow, declared, orchs[i], orchs'[i])
    /\ UNCHANGED <<uvars, bvars, avars, mvars>>
    /\ UNCHANGED <<flow, graph, keyPlan, raising, shared, fexec, fpc, fitems, fprepCalls,
                   fpostCalls, fresult, fthrown>>

\* (variant: run returns what the last unit's finalize returned)
RunReturnsLastKey(postValue, lastKey) == lastKey

\* what run returns: the value of the flow's own finalize
RunReturns(postValue, lastKey) == postValue

\* the outcome key of the last node-run of the last orchestration
LastKey ==
    IF NOrchs > 0 /\ Len(orchs[NOrchs].keys) > 0
    THEN orchs[NOrchs].keys[Len(orchs[NOrchs].keys)]
    ELSE NoValue

\* every orchestration has returned: the flow's finalize is called
\* (createFlow and createAsyncFlow have none and return nothing)
FlowJoinOk ==
    /\ fpc = "orch"
    /\ \A i \in 1..NOrchs : orchs[i].pc = "ended"
    /\ IF HasLifecycle(flow)
       THEN /\ fpostCalls' = fpostCalls + 1
            /\ fpc' = "post"
            /\ UNCHANGED fresult
       ELSE /\ fresult' = Undefined
            /\ fpc' = "done"
            /\ UNCHANGED fpostCalls
    /\ UNCHANGED <<uvars, bvars, avars, mvars>>
    /\ UNCHANGED <<flow, graph, keyPlan, raising, declared, shared, fexec, fitems, orchs, fprepCalls, fthrown>>

\* an orchestration has thrown: run fails with the first such error
FlowJoinFail ==
    /\ fpc = "orch"
    /\ \E i \in 1..NOrchs :
          /\ orchs[i].pc = "failed"
          /\ \A j \in 1..NOrchs : orchs[j].pc = "failed" => orchs[i].order <= orchs[j].order
          /\ fthrown' = orchs[i].err
    /\ fpc' = "failed"
    /\ UNCHANGED <<uvars, bvars, avars, mvars>>
    /\ UNCHANGED <<flow, graph, keyPlan, raising, declared, shared, fexec, fitems, orchs, fprepCalls,
                   fpostCalls, fresult>>

\* the flow's finalize returns and run returns
FlowPost ==
    /\ fpc = "post"
    /\ fresult' = RunReturns(FlowPostValue, LastKey)
    /\ fpc' = "done"
    /\ UNCHANGED <<uvars, bvars, avars, mvars>>
    /\ UNCHANGED <<flow, graph, keyPlan, raising, declared, shared, fexec, fitems, orchs, fprepCalls,
                   fpostCalls, fthrown>>

\* largest number of direct invocations of the flow's compute
MaxExecCalls == 1

FlowCantExec == [isError |-> TRUE, msg |-> "Flow can't exec."]

\* what flow.exec(prepRes) does: throw new Error("Flow can't exec.")
ExecOfFlow(f) == FlowCantExec

\* the caller invokes the compute phase of the flow it has run
FlowExec ==
    /\ fpc \in {"done", "failed"}
    /\ HasLifecycle(flow)
    /\ fexec.calls < MaxExecCalls
    /\ fexec' = [fexec EXCEPT !.calls = @ + 1, !.thrown = ExecOfFlow(flow)]
    /\ UNCHANGED <<uvars, bvars, avars, mvars>>
    /\ UNCHANGED <<flow, graph, keyPlan, raising, declared, shared, fpc, fitems, orchs,
                   fprepCalls, fpostCalls, fresult, fthrown>>

FlowNext ==
    \/ FlowPrep
    \/ FlowExec
    \/ \E i \in 1..MaxBatch : OrchEnter(i)
    \/ \E i \in 1..MaxBatch : NodeReturn(i)
    \/ \E i \in 1..MaxBatch : NodeThrow(i)
    \/ FlowJoinOk
    \/ FlowJoinFail
    \/ FlowPost

(***************************************************************************)
(* Part 3: graph construction.                                             *)
(*                                                                         *)
(* Node objects are handles 1, 2, ...; tables[h][k] is the handle of the   *)
(* successor node h has under key k, or 0.  ant and ds change the table of *)
(* the receiver in place; o3 leaves the receiver as it is and returns a    *)
(* new node object that carries the changed table.                         *)
(***************************************************************************)
\* largest number of registration calls
MaxRegs == 3

\* the node objects that exist before the first registration
BuildNodes == {"A", "B"}

EmptyTable == [k \in TableKeys |-> 0]

\* the registration entry points of each engine
Vias(impl) ==
    CASE impl = "ant" -> {"addSuccessor", "then", "withAction"}
      [] impl = "o3"  -> {"addSuccessor", "then", "cond"}
      [] impl = "ds"  -> {"addSuccessor", "when"}

\* (variant: every entry point registers under "default")
ViaKeyDefault(via, k) == "default"

\* the key an entry point registers under, called with key k
ViaKey(via, k) == IF via = "then" THEN "default" ELSE k

\* the node objects before the first call: a unit with a retry policy and
\* params of its own, and a flow that starts at it (createFlow is no node)
InitialObjs(impl) ==
    << [cls |-> "Node", params |-> OwnParams("A"), maxRetries |-> 2, wait |-> 1,
        start |-> 0],
       [cls |-> IF impl = "ds" THEN "Node" ELSE "Flow", params |-> OwnParams("B"),
        maxRetries |-> 1, wait |-> 0, start |-> IF impl = "ds" THEN 0 ELSE 1] >>

BuildInit ==
    /\ bimpl \in {"ant", "o3", "ds"}
    /\ tables = [h \in 1..Cardinality(BuildNodes) |-> EmptyTable]
    /\ objs = InitialObjs(bimpl)
    /\ regs = 0
    /\ lastReg = NoReg
    /\ diags = <<>>
    /\ overwrites = 0
    /\ started = NoRun
    \* no unit is run on its own
    /\ unit = [impl |-> "o3", cls |-> "Node"]
    /\ maxRetries = 1
    /\ wait = 0
    /\ upc = "idle"
    /\ prepRes = <<>>
    /\ tasks = <<>>
    /\ prepCalls = 0
    /\ postCalls = 0
    /\ postArgs = <<NoValue, NoValue>>
    /\ result = NoValue
    /\ thrown = NoError
    \* no flow is run
    /\ flow = [impl |-> "o3", cls |-> "Flow"]
    /\ graph = {}
    /\ keyPlan = [n \in {"A", "B", "C"} |-> Undefined]
    /\ raising = {}
    /\ fpc = "idle"
    /\ fitems = <<>>
    /\ orchs = <<>>
    /\ fprepCalls = 0
    /\ fpostCalls = 0
    /\ fresult = NoValue
    /\ fthrown = NoError
    /\ shared = NoValue
    /\ fexec = NoExec
    /\ declared = <<>>
    \* no agent is constructed
    /\ agent = NoAgent
    /\ acalls = NoCalls
    /\ alast = NoCall
    /\ aresets = 0
    /\ retry = NoRetry
    \* no state machine is created
    /\ machine = NoMachine
    /\ mcur = "-"
    /\ disp = NoDispatch
    /\ mcount = 0
    /\ mctx = NoContext
    /\ adapted = NoAdapted

\* (variant: the test is left out)
OverwriteUndetected(table, k) == FALSE

\* if (this.successors[action]): the key has a successor
OverwriteDetected(table, k) == table[k] # 0

\* the tables after addSuccessor(target, k) on node object on
Registered(impl, tbs, on, k, target) ==
    IF impl = "o3"
    THEN Append(tbs, [tbs[on] EXCEPT ![k] = target])
    ELSE [tbs EXCEPT ![on] = [tbs[on] EXCEPT ![k] = target]]

\* (variant: the new object is constructed with the default retry policy)
CloneWithDefaultPolicy(o, p) ==
    [cls |-> o.cls, params |-> p, maxRetries |-> 1, wait |-> 0, start |-> o.start]

\* clone of o3: new this.constructor(params, successors, this.maxRetries,
\* this.wait), of a flow new this.constructor(this.start, params, successors)
Clone(o, p) ==
    [cls |-> o.cls, params |-> p, maxRetries |-> o.maxRetries, wait |-> o.wait,
     start |-> o.start]

\* the objects after addSuccessor on node object on
ObjsRegistered(impl, obs, on) ==
    IF impl = "o3" THEN Append(obs, Clone(obs[on], obs[on].params)) ELSE obs

\* the objects and the tables after setParams(p) on node object on
ObjsWithParams(impl, obs, on, p) ==
    IF impl = "o3"
    THEN Append(obs, Clone(obs[on], SetParams(impl, obs[on].params, p)))
    ELSE [obs EXCEPT ![on] = [@ EXCEPT !.params = SetParams(impl, obs[on].params, p)]]

TablesWithParams(impl, tbs, on) == IF impl = "o3" THEN Append(tbs, tbs[on]) ELSE tbs

\* what setParams returns: ant nothing, o3 the new node, ds the receiver
ReturnedBySetParams(impl, tbs, on) ==
    CASE impl = "ant" -> 0
      [] impl = "o3"  -> Len(tbs) + 1
      [] impl = "ds"  -> on

\* the node object addSuccessor returns: ant the successor, o3 the new
\* node, ds the receiver
Returned(impl, tbs, on, target) ==
    CASE impl = "ant" -> target
      [] impl = "o3"  -> Len(tbs) + 1
      [] impl = "ds"  -> on

\* ds returns the base node of the receiver, whose run is not the
\* receiver's own
ReturnsBase(impl) == impl = "ds"

\* addSuccessor(target, k) on node object on, reached through via
Register(on, target, k, via) ==
    /\ regs < MaxRegs
    /\ on \in 1..Len(tables)
    /\ target \in 1..Len(tables)
    /\ via \in Vias(bimpl)
    /\ regs' = regs + 1
    /\ diags' = IF OverwriteDetected(tables[on], k) THEN Append(diags, k) ELSE diags
    /\ overwrites' = IF tables[on][k] # 0 THEN overwrites + 1 ELSE overwrites
    /\ tables' = Registered(bimpl, tables, on, k, target)
    /\ objs' = ObjsRegistered(bimpl, objs, on)
    /\ lastReg' = [on |-> on, key |-> k, target |-> target, via |-> via,
                   had |-> tables[on][k] # 0,
                   warned |-> OverwriteDetected(tables[on], k),
                   ret |-> Returned(bimpl, tables, on, target),
                   retIsBase |-> ReturnsBase(bimpl)]
    /\ UNCHANGED <<uvars, fvars, avars, mvars>>
    /\ UNCHANGED <<bimpl, started>>

\* node.addSuccessor(target, k)
AddSuccessor(on, target, k) == Register(on, target, k, "addSuccessor")

\* node.then(target)
Then(on, target) == Register(on, target, ViaKey("then", "default"), "then")

\* node.withAction(k).then(target) / node.cond(k)(target) /
\* node.when(k).then(target)
WithActionThen(on, target, k) ==
    \E via \in {"withAction", "cond", "when"} : Register(on, target, ViaKey(via, k), via)

\* the node object that carries the table a registration on node object on
\* has produced: o3 the new node, ant and ds the receiver
Produced(impl, tbs, on) == IF impl = "o3" THEN Len(tbs) + 1 ELSE on

\* node.setParams(p)
SetParamsOn(on, p) ==
    /\ regs < MaxRegs
    /\ on \in 1..Len(tables)
    /\ regs' = regs + 1
    /\ objs' = ObjsWithParams(bimpl, objs, on, p)
    /\ tables' = TablesWithParams(bimpl, tables, on)
    /\ lastReg' = [on |-> on, key |-> "-", target |-> 0, via |-> "setParams",
                   had |-> FALSE, warned |-> FALSE,
                   ret |-> ReturnedBySetParams(bimpl, tables, on),
                   retIsBase |-> ReturnsBase(bimpl)]
    /\ UNCHANGED <<uvars, fvars, avars, mvars>>
    /\ UNCHANGED <<bimpl, diags, overwrites, started>>

\* ds: throw new Error("Base node cannot be run directly")
BaseNodeError == [isError |-> TRUE, msg |-> "Base node cannot be run directly"]

\* the first round of createFlow(h).run(shared): current.run(shared) is the
\* run of the processing node (prepare, compute, finalize returning k,
\* then getNextNode) or, when h is a base node, the run that throws
FirstNodeRun(tbs, h, isBase, k) ==
    IF isBase
    THEN [start |-> h, isBase |-> TRUE, key |-> k, phases |-> <<>>,
          thrown |-> BaseNodeError, next |-> 0]
    ELSE [start |-> h, isBase |-> FALSE, key |-> k, phases |-> <<"prep", "exec", "post">>,
          thrown |-> NoError, next |-> tbs[h][k]]

\* createFlow(returned).run(shared), returned being what the latest
\* addSuccessor / when(k).then(next) call returned
CreateFlowRun(k) ==
    /\ bimpl = "ds"
    /\ lastReg.ret # 0
    /\ started = NoRun
    /\ started' = FirstNodeRun(tables, lastReg.ret, lastReg.retIsBase, k)
    /\ UNCHANGED <<uvars, fvars, avars, mvars>>
    /\ UNCHANGED <<bimpl, tables, objs, regs, lastReg, diags, overwrites>>

MaxHandles == Cardinality(BuildNodes) + MaxRegs

\* a registration call
RegisterNext ==
    \/ \E on \in 1..MaxHandles, target \in 1..MaxHandles, k \in TableKeys :
          AddSuccessor(on, target, k)
    \/ \E on \in 1..MaxHandles, target \in 1..MaxHandles : Then(on, target)
    \/ \E on \in 1..MaxHandles, target \in 1..MaxHandles, k \in TableKeys :
          WithActionThen(on, target, k)

BuildNext ==
    \/ RegisterNext
    \/ \E k \in TableKeys : CreateFlowRun(k)

(***************************************************************************)
(* Part 4: BaseAgent (src/agentx/src/agents/base_agent.ts): the step       *)
(* counter, the log and executeWithRetry.                                  *)
(***************************************************************************)
\* largest maxSteps an agent is constructed with
MaxStepsBound == 2
\* largest number of entries logged
MaxLogs == 2
\* largest number of reset calls
MaxResets == 2
\* largest retries argument of executeWithRetry
MaxAgentRetries == 3

\* validateStep is called often enough to pass the limit twice
MaxValidateCalls == MaxStepsBound + 2

\* retries: number = 3
DefaultRetries == 3

LogSteps == {"s0", "s1"}

AgentError(m) == [name |-> "AgentError", msg |-> m]

AgentExecutionError(m) == [name |-> "AgentExecutionError", msg |-> m]

\* new TestAgent(m)
NewAgent(m) == [maxSteps |-> m, currentStep |-> 0, logs |-> <<>>]

\* (variant: the limit is tested one step late)
StepLimitReachedLate(a) == a.currentStep > a.maxSteps

\* if (this.currentStep >= this.maxSteps)
StepLimitReached(a) == a.currentStep >= a.maxSteps

\* getLastStep()
GetLastStep(a) == IF Len(a.logs) > 0 THEN a.logs[Len(a.logs)] ELSE Null

\* (variant: reset clears the log only)
AfterResetLogsOnly(a) == [a EXCEPT !.logs = <<>>]

\* reset(): clearLogs(); currentStep = 0
AfterReset(a) == [a EXCEPT !.logs = <<>>, !.currentStep = 0]

\* the retries executeWithRetry runs with, for the arguments after fn: none
\* (<<>>) or one (<<n>>)
RetriesOf(arg) == IF arg = <<>> THEN DefaultRetries ELSE arg[1]

\* lastError?.message
LastMessage(e) == IF e = Null THEN Undefined ELSE e

\* executeWithRetry(fn, arg) is entered; fn fails on its first k invocations
NewRetry(arg, k) ==
    [pc |-> "loop", retries |-> RetriesOf(arg), i |-> 0, plan |-> k, calls |-> 0,
     delays |-> <<>>, lastError |-> Null, result |-> NoValue, thrown |-> NotThrown]

\* (variant: the loop makes one round more)
RetryLoopContinuesOneMore(i, r) == i <= r

\* for (let i = 0; i < retries; i++)
RetryLoopContinues(i, r) == i < r

\* setTimeout(resolve, 1000 * (i + 1))
RetryDelayMs(i) == 1000 * (i + 1)

FnValue == "{success:true}"

FnError(c) == "Test error " \o ToString(c)

AgentInit ==
    /\ agent \in {NewAgent(m) : m \in 0..MaxStepsBound}
    /\ acalls = NoCalls
    /\ alast = NoCall
    /\ aresets = 0
    /\ retry \in {NoRetry} \cup
                 {NewRetry(arg, k) : arg \in {<<>>} \cup {<<n>> : n \in 0..MaxAgentRetries},
                                     k \in 0..(MaxAgentRetries + 1)}
    \* no unit is run on its own
    /\ unit = [impl |-> "o3", cls |-> "Node"]
    /\ maxRetries = 1
    /\ wait = 0
    /\ upc = "idle"
    /\ prepRes = <<>>
    /\ tasks = <<>>
    /\ prepCalls = 0
    /\ postCalls = 0
    /\ postArgs = <<NoValue, NoValue>>
    /\ result = NoValue
    /\ thrown = NoError
    \* no flow is run
    /\ flow = [impl |-> "o3", cls |-> "Flow"]
    /\ graph = {}
    /\ keyPlan = [n \in {"A", "B", "C"} |-> Undefined]
    /\ raising = {}
    /\ fpc = "idle"
    /\ fitems = <<>>
    /\ orchs = <<>>
    /\ fprepCalls = 0
    /\ fpostCalls = 0
    /\ fresult = NoValue
    /\ fthrown = NoError
    /\ shared = NoValue
    /\ fexec = NoExec
    /\ declared = <<>>
    \* no graph is under construction
    /\ bimpl = "ant"
    /\ tables = <<>>
    /\ objs = <<>>
    /\ regs = 0
    /\ lastReg = NoReg
    /\ diags = <<>>
    /\ overwrites = 0
    /\ started = NoRun
    \* no state machine is created
    /\ machine = NoMachine
    /\ mcur = "-"
    /\ disp = NoDispatch
    /\ mcount = 0
    /\ mctx = NoContext
    /\ adapted = NoAdapted

\* agent.addLog(st)
AddLog(st) ==
    /\ retry.pc = "idle"
    /\ Len(agent.logs) < MaxLogs
    /\ agent' = [agent EXCEPT !.logs = Append(@, st)]
    /\ alast' = [op |-> "addLog", threw |-> NotThrown, before |-> agent]
    /\ UNCHANGED <<acalls, aresets, retry>>
    /\ UNCHANGED <<uvars, fvars, bvars, mvars>>

\* agent.validateStep()
ValidateStep ==
    /\ retry.pc = "idle"
    /\ acalls.made < MaxValidateCalls
    /\ IF StepLimitReached(agent)
       THEN /\ alast' = [op |-> "validateStep",
                         threw |-> AgentError("Maximum number of steps reached"),
                         before |-> agent]
            /\ acalls' = [acalls EXCEPT !.made = @ + 1]
            /\ UNCHANGED agent
       ELSE /\ agent' = [agent EXCEPT !.currentStep = @ + 1]
            /\ alast' = [op |-> "validateStep", threw |-> NotThrown, before |-> agent]
            /\ acalls' = [made |-> acalls.made + 1, ok |-> acalls.ok + 1]
    /\ UNCHANGED <<aresets, retry>>
    /\ UNCHANGED <<uvars, fvars, bvars, mvars>>

\* agent.reset()
Reset ==
    /\ retry.pc = "idle"
    /\ aresets < MaxResets
    /\ agent' = AfterReset(agent)
    /\ acalls' = NoCalls
    /\ alast' = [op |-> "reset", threw |-> NotThrown, before |-> agent]
    /\ aresets' = aresets + 1
    /\ UNCHANGED retry
    /\ UNCHANGED <<uvars, fvars, bvars, mvars>>

\* one round of the loop: fn is invoked and returns or throws
RetryCall ==
    /\ retry.pc = "loop"
    /\ RetryLoopContinues(retry.i, retry.retries)
    /\ IF retry.calls < retry.plan
       THEN retry' = [retry EXCEPT !.calls = @ + 1, !.pc = "delay",
                                   !.lastError = FnError(retry.calls + 1)]
       ELSE retry' = [retry EXCEPT !.calls = @ + 1, !.pc = "returned",
                                   !.result = FnValue]
    /\ UNCHANGED <<agent, acalls, alast, aresets>>
    /\ UNCHANGED <<uvars, fvars, bvars, mvars>>

\* the delay after a failed invocation has passed: i++
RetryDelay ==
    /\ retry.pc = "delay"
    /\ retry' = [retry EXCEPT !.delays = Append(@, RetryDelayMs(retry.i)),
                               !.i = @ + 1, !.pc = "loop"]
    /\ UNCHANGED <<agent, acalls, alast, aresets>>
    /\ UNCHANGED <<uvars, fvars, bvars, mvars>>

\* the loop is left: throw new AgentExecutionError(...)
RetryExhausted ==
    /\ retry.pc = "loop"
    /\ ~RetryLoopContinues(retry.i, retry.retries)
    /\ retry' = [retry EXCEPT !.pc = "thrown",
                     !.thrown = AgentExecutionError(
                         "Failed after " \o ToString(retry.retries)
                         \o " retries. Last error: " \o LastMessage(retry.lastError))]
    /\ UNCHANGED <<agent, acalls, alast, aresets>>
    /\ UNCHANGED <<uvars, fvars, bvars, mvars>>

AgentNext ==
    \/ \E st \in LogSteps : AddLog(st)
    \/ ValidateStep
    \/ Reset
    \/ RetryCall
    \/ RetryDelay
    \/ RetryExhausted

(***************************************************************************)
(* Part 5: the event-driven state machine (createStateMachine).            *)
(*                                                                         *)
(* A machine is created with two states; the transitions of its first      *)
(* state, in declaration order, and the states that have onEnter and       *)
(* onExit hooks are chosen at creation.  A transition's condition is a     *)
(* caller's function: "none" is an absent condition, "true" and "false"    *)
(* are what it returns.  Hooks and execute return; dispatch calls are      *)
(* awaited, one at a time.                                                 *)
(***************************************************************************)
MaxTransitions == 2

MaxDispatches == 2

StateIds == {"s1", "s2"}

\* a transition target that names no state of the machine
UnknownState == "s9"

EventTypes == {"go", "stop"}

Transitions == [on : EventTypes, target : StateIds \cup {UnknownState},
                cond : {"none", "true", "false"}]

TransitionLists == UNION {[1..n -> Transitions] : n \in 0..MaxTransitions}

\* t.on === event.type && (!t.condition || t.condition(context, event))
Matches(t, ev) == t.on = ev /\ (t.cond = "none" \/ t.cond = "true")

\* Array.prototype.find: the index of the first element that satisfies the
\* test, 0 for undefined
FirstMatch(ts, ev) ==
    LET hits == {i \in 1..Len(ts) : Matches(ts[i], ev)}
    IN  IF hits = {} THEN 0 ELSE CHOOSE i \in hits : \A j \in hits : i <= j

\* getState(): this.states[this.currentState], or a throw
StateNotFound(id) ==
    [isError |-> TRUE, msg |-> "State " \o id \o " not found in state machine"]

HookCall(h, id, cur) == [hook |-> h, of |-> id, cur |-> cur]

\* the shared contexts: the default {} of createStateMachine's options, the
\* options' initialContext, and the one passed to start
SharedValues == {"empty", "options", "given"}

\* getContext(): a new object on every call, its shared the closure's
\* initialContext, its state {} and its event undefined
FreshContext(sh) == [shared |-> sh, state |-> {}, event |-> "-"]

\* what a hook finds in the context object it is called with
Handed(h, id, ctx) == [hook |-> h, of |-> id, shared |-> ctx.shared, state |-> ctx.state,
                       event |-> ctx.event]

\* every hook writes a value of its own to context.state
Written(h, id) == <<h, id>>

\* the context object after the hook has run
AfterHook(h, id, ctx) == [ctx EXCEPT !.state = @ \cup {Written(h, id)}]

\* createStateMachine({initialState: "s1", states: [s1, s2]})
MachineInit ==
    /\ machine \in [trans : {[s1 |-> ts, s2 |-> <<[on |-> "go", target |-> "s1", cond |-> "none"]>>] :
                                ts \in TransitionLists},
                    hooked : SUBSET StateIds]
    /\ mcur = "s1"
    /\ disp = NoDispatch
    /\ mcount = 0
    /\ mctx \in {[NoContext EXCEPT !.shared = sh] : sh \in SharedValues \ {"given"}}
    /\ adapted = NoAdapted
    \* no unit is run on its own
    /\ unit = [impl |-> "o3", cls |-> "Node"]
    /\ maxRetries = 1
    /\ wait = 0
    /\ upc = "idle"
    /\ prepRes = <<>>
    /\ tasks = <<>>
    /\ prepCalls = 0
    /\ postCalls = 0
    /\ postArgs = <<NoValue, NoValue>>
    /\ result = NoValue
    /\ thrown = NoError
    \* no flow is run
    /\ flow = [impl |-> "o3", cls |-> "Flow"]
    /\ graph = {}
    /\ keyPlan = [n \in {"A", "B", "C"} |-> Undefined]
    /\ raising = {}
    /\ fpc = "idle"
    /\ fitems = <<>>
    /\ orchs = <<>>
    /\ fprepCalls = 0
    /\ fpostCalls = 0
    /\ fresult = NoValue
    /\ fthrown = NoError
    /\ shared = NoValue
    /\ fexec = NoExec
    /\ declared = <<>>
    \* no graph is under construction
    /\ bimpl = "ant"
    /\ tables = <<>>
    /\ objs = <<>>
    /\ regs = 0
    /\ lastReg = NoReg
    /\ diags = <<>>
    /\ overwrites = 0
    /\ started = NoRun
    \* no agent is created
    /\ agent = NoAgent
    /\ acalls = NoCalls
    /\ alast = NoCall
    /\ aresets = 0
    /\ retry = NoRetry

\* machine.dispatch(event), up to the choice of the transition:
\* getState() throws when currentState names no state; with no matching
\* transition the call warns and returns
DispatchFind(ev) ==
    /\ mcur # "-"
    /\ disp.pc = "idle"
    /\ mcount < MaxDispatches
    /\ mcount' = mcount + 1
    /\ LET call == [NoDispatch EXCEPT !.ev = ev, !.from = mcur]
       IN  IF mcur \notin StateIds
           THEN disp' = [call EXCEPT !.outcome = "threw", !.error = StateNotFound(mcur)]
           ELSE LET k == FirstMatch(machine.trans[mcur], ev)
                IN  IF k = 0
                    THEN disp' = [call EXCEPT !.outcome = "ignored"]
                    ELSE disp' = [call EXCEPT !.pick = k, !.pc = "exit"]
    /\ UNCHANGED <<machine, mcur, mctx, adapted>>
    /\ UNCHANGED <<uvars, fvars, bvars, avars>>

\* onExit of the state left, if it has one; currentState = transition.target;
\* getState() of the new current state
DispatchExit ==
    /\ disp.pc = "exit"
    /\ LET target == machine.trans[disp.from][disp.pick].target
           log == IF disp.from \in machine.hooked
                  THEN Append(disp.log, HookCall("onExit", disp.from, mcur))
                  ELSE disp.log
       IN  /\ mcur' = target
           /\ IF target \in StateIds
              THEN disp' = [disp EXCEPT !.log = log, !.pc = "enter"]
              ELSE disp' = [disp EXCEPT !.log = log, !.pc = "idle", !.outcome = "threw",
                                        !.error = StateNotFound(target)]
    \* onExit is called with this.getContext(); the context of the hooks of
    \* the new state is another getContext() with the event set
    /\ mctx' = [mctx EXCEPT
                  !.seen = IF disp.from \in machine.hooked
                           THEN Append(@, Handed("onExit", disp.from, FreshContext(mctx.shared)))
                           ELSE @,
                  !.live = [FreshContext(mctx.shared) EXCEPT !.event = disp.ev]]
    /\ UNCHANGED <<machine, mcount, adapted>>
    /\ UNCHANGED <<uvars, fvars, bvars, avars>>

\* onEnter of the new state, if it has one
DispatchEnter ==
    /\ disp.pc = "enter"
    /\ disp' = [disp EXCEPT !.pc = "execute",
                            !.log = IF mcur \in machine.hooked
                                    THEN Append(@, HookCall("onEnter", mcur, mcur))
                                    ELSE @]
    /\ mctx' = IF mcur \in machine.hooked
               THEN [mctx EXCEPT !.seen = Append(@, Handed("onEnter", mcur, mctx.live)),
                                 !.live = AfterHook("onEnter", mcur, @)]
               ELSE mctx
    /\ UNCHANGED <<machine, mcur, mcount, adapted>>
    /\ UNCHANGED <<uvars, fvars, bvars, avars>>

\* execute of the new state; the call logs the transition and returns
DispatchExecute ==
    /\ disp.pc = "execute"
    /\ disp' = [disp EXCEPT !.pc = "idle", !.outcome = "transitioned",
                            !.log = Append(@, HookCall("execute", mcur, mcur))]
    /\ mctx' = [mctx EXCEPT !.seen = Append(@, Handed("execute", mcur, mctx.live)),
                            !.live = AfterHook("execute", mcur, @)]
    /\ UNCHANGED <<machine, mcur, mcount, adapted>>
    /\ UNCHANGED <<uvars, fvars, bvars, avars>>

\* machine.start(initialContext): the argument, when given, is assigned to
\* the shared field of a getContext() object that is then dropped; onEnter
\* (if any) and execute of the initial state get one other getContext()
Start(arg) ==
    /\ mcur \in StateIds
    /\ ~mctx.started
    /\ mcount = 0
    /\ LET ctx == FreshContext(mctx.shared)
           entered == mcur \in machine.hooked
           atExecute == IF entered THEN AfterHook("onEnter", mcur, ctx) ELSE ctx
       IN  mctx' = [mctx EXCEPT
                      !.started = TRUE,
                      !.startArg = arg,
                      !.seen = (IF entered THEN <<Handed("onEnter", mcur, ctx)>> ELSE <<>>)
                               \o <<Handed("execute", mcur, atExecute)>>,
                      !.live = AfterHook("execute", mcur, atExecute)]
    /\ UNCHANGED <<machine, mcur, disp, mcount, adapted>>
    /\ UNCHANGED <<uvars, fvars, bvars, avars>>

MachineNext ==
    \/ \E arg \in {<<>>, <<"given">>} : Start(arg)
    \/ \E ev \in EventTypes : DispatchFind(ev)
    \/ DispatchExit
    \/ DispatchEnter
    \/ DispatchExecute

(***************************************************************************)
(* Part 6: the adapter (nodeToState).  The state made from a processing    *)
(* node is executed once the node's own run is over, with the same         *)
(* prepare, compute, finalize and the same pattern of compute failures.    *)
(***************************************************************************)
ProcessingNode == [impl |-> "ds", cls |-> "Node"]

\* execute of the state: prep, exec and post are called once each in a try
\* block; whatever is thrown is caught and stored in context.state.error,
\* and execute returns
AdaptedExecute(t, key) ==
    IF t.plan >= 1
    THEN [NoAdapted EXCEPT !.done = TRUE, !.prepCalls = 1, !.calls = 1, !.fails = 1,
                           !.stored = Thrown(1, t.throwsError)]
    ELSE [NoAdapted EXCEPT !.done = TRUE, !.prepCalls = 1, !.calls = 1,
                           !.postCalls = 1,
                           !.postArgs = <<t.input, ExecVal(t.input)>>,
                           !.postResult = key]

\* state.execute(context) for the state nodeToState(node, id); finalize is
\* a function: given what it was given in the node's run it returns the same
ExecuteAdapted ==
    /\ unit = ProcessingNode
    /\ upc \in {"done", "failed"}
    /\ ~adapted.done
    /\ \E key \in OutcomeKeys :
          /\ (upc = "done" /\ postArgs = <<tasks[1].input, ExecVal(tasks[1].input)>>)
                => key = result
          /\ adapted' = AdaptedExecute(tasks[1], key)
    /\ UNCHANGED <<machine, mcur, disp, mcount, mctx>>
    /\ UNCHANGED <<uvars, fvars, bvars, avars>>

AdapterInit == UnitInit /\ unit = ProcessingNode

AdapterNext == UnitNext \/ ExecuteAdapted

(***************************************************************************)
(* The specifications: a unit run on its own, a flow run, and the          *)
(* construction of a graph.                                                *)
(***************************************************************************)
SpecUnit == UnitInit /\ [][UnitNext]_vars

SpecFlow == FlowInit /\ [][FlowNext]_vars

\* a flow run whose steps are taken when they can be: the event loop runs
\* every callback and continuation that is ready
SpecFlowFair == FlowInit /\ [][FlowNext]_vars /\ WF_vars(FlowNext)

SpecBuild == BuildInit /\ [][BuildNext]_vars

\* the node objects of the immutable engine under registration and setParams
ImmutableInit == BuildInit /\ bimpl = "o3"

ImmutableNext ==
    \/ RegisterNext
    \/ \E on \in 1..MaxHandles, p \in {FlowParams, ItemOverride(1)} : SetParamsOn(on, p)

SpecImmutable == ImmutableInit /\ [][ImmutableNext]_vars

SpecAgent == AgentInit /\ [][AgentNext]_vars

SpecMachine == MachineInit /\ [][MachineNext]_vars

SpecAdapter == AdapterInit /\ [][AdapterNext]_vars

\* the run of a parallel batch: of units, or of flows
ParallelInit ==
    \/ UnitInit /\ UsesPromiseAll(unit)
    \/ FlowInit /\ OrchestratesInParallel(flow)

ParallelNext == UnitNext \/ FlowNext

SpecParallel == ParallelInit /\ [][ParallelNext]_vars

(***************************************************************************)
(* Properties of one unit run.                                             *)
(***************************************************************************)
Constructed == upc \notin {"none", "rejected"}

Started == upc \in {"exec", "post", "done", "failed"}

\* a unit that is not a batch: its one loop works on the prepare result
Single == ~IsBatch(unit)

\* C1: with maxRetries = N >= 1 and a compute that fails on its first N-1
\* calls and succeeds on the N-th, one run calls compute exactly N times,
\* never calls the fallback, does not fail, and finalize receives the
\* prepare result and the value compute returned.
C1_RetryThenSuccess ==
    (Started /\ Single /\ maxRetries >= 1 /\ tasks[1].plan = maxRetries - 1) =>
        /\ tasks[1].calls <= maxRetries
        /\ tasks[1].fbCalls = 0
        /\ upc # "failed"
        /\ Finished(tasks[1]) =>
              /\ tasks[1].pc = "done"
              /\ tasks[1].calls = maxRetries
              /\ tasks[1].res = ExecVal("p")
        /\ upc \in {"post", "done"} =>
              /\ postCalls = 1
              /\ postArgs = <<"p", ExecVal("p")>>

C1_Witness ==
    /\ upc = "done" /\ Single /\ maxRetries = 3
    /\ tasks[1].plan = 2 /\ tasks[1].calls = 3 /\ tasks[1].fails = 2

\* the error compute raised on its call number c
ErrorOfCall(t, c) == [isError |-> t.throwsError, msg |-> "e" \o ToString(c)]

\* C2 as claimed: with a compute that fails on every call, the fallback is
\* called exactly once, after the maxRetries-th failure, with the prepare
\* result and the very error that last attempt raised, and the value it
\* returns is the compute result finalize receives.
C2_FallbackGetsFinalError ==
    (Started /\ Single /\ maxRetries >= 1 /\ tasks[1].plan >= maxRetries) =>
        /\ tasks[1].fbCalls <= 1
        /\ tasks[1].calls <= maxRetries
        /\ tasks[1].fbCalls = 1 =>
              /\ tasks[1].fails = maxRetries
              /\ tasks[1].fbArgs = <<"p", ErrorOfCall(tasks[1], maxRetries)>>
        /\ Finished(tasks[1]) => tasks[1].fbCalls = 1
        /\ upc \in {"post", "done"} =>
              /\ postCalls = 1
              /\ postArgs = <<"p", FallbackVal("p", ErrorOfCall(tasks[1], maxRetries))>>

\* the error the fallback is handed for the final error e: e itself, except
\* that the function-based engine hands a thrown value that is not an Error
\* as new Error(String(e))
HandedError(e) ==
    IF unit.impl = "ds" /\ ~e.isError
    THEN [isError |-> TRUE, msg |-> "String(" \o e.msg \o ")"]
    ELSE e

\* C2, amended: as claimed, except that in the function-based engine a
\* final error that is not an Error instance reaches the fallback wrapped
\* as new Error(String(error)).
C2_FallbackGetsFinalErrorAsError ==
    (Started /\ Single /\ maxRetries >= 1 /\ tasks[1].plan >= maxRetries) =>
        /\ tasks[1].fbCalls <= 1
        /\ tasks[1].calls <= maxRetries
        /\ tasks[1].fbCalls = 1 =>
              /\ tasks[1].fails = maxRetries
              /\ tasks[1].fbArgs = <<"p", HandedError(ErrorOfCall(tasks[1], maxRetries))>>
        /\ Finished(tasks[1]) => tasks[1].fbCalls = 1
        /\ upc \in {"post", "done"} =>
              /\ postCalls = 1
              /\ postArgs =
                    <<"p", FallbackVal("p", HandedError(ErrorOfCall(tasks[1], maxRetries)))>>

C2_Witness ==
    /\ upc = "done" /\ Single /\ unit.impl = "ds" /\ maxRetries = 3
    /\ tasks[1].plan = 3 /\ ~tasks[1].throwsError
    /\ tasks[1].fbCalls = 1 /\ tasks[1].calls = 3

\* C3: once the fallback has raised, the run fails with the error the
\* fallback raised: compute is not called again, the fallback is not called
\* a second time and finalize is not called.
C3_FallbackFailureEndsRun ==
    (Started /\ Single /\ tasks[1].pc = "failed" /\ tasks[1].fbCalls >= 1) =>
        /\ tasks[1].calls = maxRetries
        /\ tasks[1].fbCalls = 1
        /\ postCalls = 0
        /\ upc \in {"exec", "failed"}
        /\ upc = "failed" => thrown = tasks[1].err

C3_Witness ==
    /\ upc = "failed" /\ Single /\ maxRetries = 2
    /\ tasks[1].fbCalls = 1 /\ tasks[1].calls = 2
    /\ thrown.msg = "fallback failed"

\* C4 as claimed: a retry policy with maxRetries < 1 is rejected when the
\* unit is constructed, so no run skips compute and still calls finalize.
C4_ZeroAttemptsRejected ==
    (Started /\ Single /\ postCalls > 0) => (maxRetries >= 1 /\ tasks[1].calls >= 1)

\* element i's result came from compute itself
Computed(i) == tasks[i].pc = "done" /\ tasks[i].calls >= 1 /\ tasks[i].fbCalls = 0

\* what compute returns for element x of a parallel batch (the
\* function-based engine calls the unit's compute on the array [x])
ComputeOfElement(x) ==
    IF unit.impl = "ds" THEN "exec([" \o x \o "])" ELSE "exec(" \o x \o ")"

\* C10: the compute result of a parallel batch of units is ordered by input
\* index: as long as the input, with the compute result of element i at
\* index i, in whatever order the elements complete.
C10_ParallelResultsByIndex ==
    (UsesPromiseAll(unit) /\ upc \in {"post", "done"}) =>
        /\ postArgs[1] = prepRes
        /\ Len(postArgs[2]) = Len(prepRes)
        /\ \A i \in 1..Len(prepRes) :
              Computed(i) => postArgs[2][i] = ComputeOfElement(prepRes[i])

C10_Witness ==
    /\ UsesPromiseAll(unit) /\ upc = "done" /\ NTasks >= 2
    /\ Computed(1) /\ Computed(2)
    /\ tasks[2].order < tasks[1].order

\* the batch-of-unit classes that are sequential by their contract
SequentialBatchUnit(u) ==
    u.impl \in {"ant", "o3"} /\ u.cls \in {"BatchNode", "AsyncBatchNode"}

\* C13: in a sequential batch of units, finalize receives the prepare
\* result and a compute result of the same length, whose i-th element is
\* what compute returned for the i-th input element.
C13_SequentialResultsByIndex ==
    (SequentialBatchUnit(unit) /\ upc \in {"post", "done"}) =>
        /\ postArgs[1] = prepRes
        /\ Len(postArgs[2]) = Len(prepRes)
        /\ \A i \in 1..Len(prepRes) :
              Computed(i) => postArgs[2][i] = ExecVal(prepRes[i])

C13_Witness ==
    /\ unit = [impl |-> "ant", cls |-> "BatchNode"]
    /\ upc = "done" /\ NTasks = 2
    /\ Computed(1) /\ Computed(2)
    /\ tasks[2].fails >= 1
    /\ postArgs[2] = <<ExecVal("x1"), ExecVal("x2")>>

\* element i's processing has begun and is not over
InProgress(i) == tasks[i].pc \notin {"idle", "done", "failed"}

\* C14 as claimed: in a sequential batch of units, the suspension-capable
\* one included, element i + 1 is not begun before element i is finished,
\* and no two elements are in progress at the same time.
C14_SequentialOneAtATime ==
    (SequentialBatchUnit(unit) /\ Started) =>
        /\ \A i \in 1..(NTasks - 1) :
              tasks[i + 1].pc # "idle" => Finished(tasks[i])
        /\ \A i, j \in 1..NTasks : (InProgress(i) /\ InProgress(j)) => i = j

\* C25 as claimed: within one run of a unit that is not a batch and has a
\* wait configured, a wait is taken once after each failed attempt that is
\* not the final one and is over before the next attempt starts; none is
\* taken before the first attempt, after a successful attempt, or between
\* the final failed attempt and the fallback.
C25_WaitAfterEachFailedAttempt ==
    (Single /\ Started /\ wait > 0) =>
        \A i \in 1..NTasks :
            /\ tasks[i].waits = tasks[i].fails - tasks[i].fbCalls
            /\ tasks[i].pc = "running" => tasks[i].waits = tasks[i].attempt
            /\ tasks[i].pc = "wait" => tasks[i].waits = tasks[i].attempt + 1

\* C26 as claimed: in one run of a unit that is not a batch, prepare is
\* called exactly once, before any compute attempt, and never again by a
\* retry; finalize is called at most once, only after compute has returned
\* or the fallback has returned, and exactly once in a run that returns;
\* the fallback receives the prepare result every compute attempt works on,
\* and finalize receives that prepare result and the compute (or fallback)
\* result.
C26_LifecycleOncePerRun ==
    (Single /\ Started) =>
        /\ prepCalls = 1
        /\ NTasks = 1
        /\ tasks[1].input = prepRes[1]
        /\ tasks[1].fbCalls > 0 => tasks[1].fbArgs[1] = prepRes[1]
        /\ postCalls <= 1
        /\ upc = "done" => postCalls = 1
        /\ postCalls = 1 =>
              /\ tasks[1].pc = "done"
              /\ \/ /\ tasks[1].calls > tasks[1].plan
                    /\ tasks[1].res = ExecVal(prepRes[1])
                 \/ /\ tasks[1].fbCalls = 1
                    /\ tasks[1].res = FallbackVal(prepRes[1], tasks[1].fbArgs[2])
              /\ postArgs = <<prepRes[1], tasks[1].res>>

\* C27 as claimed: in a batch of units with maxRetries >= 1 every element
\* has the retry policy to itself: an element whose compute fails on its
\* first k calls is finished after k + 1 calls when k < maxRetries and
\* after maxRetries calls otherwise, whatever the other elements needed; the
\* fallback is called once for each element whose attempts are exhausted
\* and for no other; and finalize receives, at each element's index, its
\* fallback value if it fell back and its compute result otherwise.
C27_RetryPolicyPerElement ==
    (IsBatch(unit) /\ Started /\ maxRetries >= 1) =>
        /\ \A i \in 1..NTasks :
              /\ tasks[i].calls <= maxRetries
              /\ Finished(tasks[i]) =>
                    IF tasks[i].plan < maxRetries
                    THEN /\ tasks[i].calls = tasks[i].plan + 1
                         /\ tasks[i].fbCalls = 0
                         /\ tasks[i].res = ComputeOfElement(tasks[i].input)
                    ELSE /\ tasks[i].calls = maxRetries
                         /\ tasks[i].fbCalls = 1
        /\ upc \in {"post", "done"} =>
              \A i \in 1..NTasks : postArgs[2][i] = tasks[i].res

\* C33: in every state of a node-run, whatever the pattern of compute
\* successes and failures, every retry loop has invoked compute at most
\* maxRetries times and the fallback at most once, and it has invoked the
\* fallback only after exactly maxRetries failed compute invocations.
C33_AttemptsAndFallbackBounded ==
    (Started /\ ElementHasRetry(unit)) =>
        \A i \in 1..NTasks :
            /\ tasks[i].calls <= maxRetries
            /\ tasks[i].fbCalls <= 1
            /\ tasks[i].fbCalls = 1 =>
                  tasks[i].fails = maxRetries /\ tasks[i].calls = maxRetries

\* a node of three attempts is in its fallback
C33_Witness ==
    /\ Started
    /\ Single
    /\ maxRetries = 3
    /\ tasks[1].pc = "fallback"
    /\ tasks[1].fbCalls = 1
    /\ tasks[1].fails = 3

(***************************************************************************)
(* Properties of one flow run.                                             *)
(***************************************************************************)
StringKeys == {"success", "default", "done"}

HasEntry(n, k) == \E e \in graph : e[1] = n /\ e[2] = k

EntryOf(n, k) == (CHOOSE e \in graph : e[1] = n /\ e[2] = k)[3]

HasTable(n) == \E e \in graph : e[1] = n

\* C5: in a flow, once a unit's finalize has returned the outcome key k: if
\* the unit's table has an entry for k, the unit run next is that entry; if
\* the table is non-empty and has no entry for k, the orchestration has
\* ended normally at this unit with k reported as unmatched, and it has
\* not failed.
C5_RoutingByOutcomeKey ==
    \A i \in 1..NOrchs :
       \A j \in 1..Len(orchs[i].keys) :
          LET n == orchs[i].path[j]
              k == orchs[i].keys[j]
          IN  (n \notin raising /\ k \in StringKeys) =>
                 /\ HasEntry(n, k) =>
                       /\ Len(orchs[i].path) > j
                       /\ orchs[i].path[j + 1] = EntryOf(n, k)
                 /\ (HasTable(n) /\ ~HasEntry(n, k)) =>
                       /\ Len(orchs[i].path) = j
                       /\ orchs[i].pc = "ended"
                       /\ orchs[i].err = NoError
                       /\ orchs[i].warned = k
                       /\ fpc = "failed" => \E h \in 1..NOrchs : orchs[h].pc = "failed"

C5_Witness ==
    /\ fpc = "done" /\ NOrchs = 1
    /\ graph = {<<"A", "default", "B">>, <<"B", "success", "C">>}
    /\ orchs[1].path = <<"A", "B">>
    /\ orchs[1].keys = <<"default", "done">>
    /\ orchs[1].warned = "done"

\* the flow classes that have prepare and finalize phases of their own
Lifecycle == flow.impl \in {"ant", "o3"} /\ fpc # "idle"

\* C6 as claimed: a flow's prepare is called once, before the first unit
\* runs; its finalize is called once, after every orchestration has
\* ended; run returns what that finalize returned, and fails only when a
\* callback has raised.
C6_FlowLifecycle ==
    Lifecycle =>
        /\ fprepCalls <= 1 /\ fpostCalls <= 1
        /\ (\E i \in 1..NOrchs : orchs[i].pc # "idle") => fprepCalls = 1
        /\ fpostCalls = 1 => \A i \in 1..NOrchs : orchs[i].pc = "ended"
        /\ fpc = "done" => (fpostCalls = 1 /\ fresult = FlowPostValue)
        /\ fpc = "failed" => raising # {}

\* C7 as claimed: the result of a flow's run is the finalize output of the
\* last unit it ran.
C7_ResultIsLastNodeOutput ==
    (fpc = "done" /\ LastKey # NoValue) => fresult = LastKey

\* the scenario of the spec: start is mapped by "success" to nodeB, start
\* finalizes with "success" and nodeB with the unmapped "done"
Scenario ==
    /\ graph = {<<"A", "success", "B">>}
    /\ keyPlan["A"] = "success" /\ keyPlan["B"] = "done"
    /\ raising = {}

\* C7, amended: the result of a flow's run is the output of the flow's
\* own finalize (createFlow, which has none, returns nothing), whatever the
\* last unit's finalize returned; in the scenario the run ends after nodeB
\* and returns the flow's finalize output, not "done".
C7_ResultIsFlowFinalizeOutput ==
    fpc = "done" =>
        /\ fresult = IF flow.impl = "ds" THEN Undefined ELSE FlowPostValue
        /\ (Scenario /\ NOrchs >= 1) =>
              /\ orchs[NOrchs].path = <<"A", "B">>
              /\ LastKey = "done"
              /\ fresult # LastKey

C7_Witness ==
    /\ fpc = "done" /\ Scenario /\ flow = [impl |-> "o3", cls |-> "Flow"]
    /\ orchs[1].path = <<"A", "B">>
    /\ orchs[1].keys = <<"success", "done">>
    /\ fresult = FlowPostValue

\* the units a run visits from unit n when every finalize returns the key
\* of the plan: each matched key leads to its entry, the first unmatched
\* key ends the path
RECURSIVE PathFrom(_, _)
PathFrom(n, fuel) ==
    IF fuel = 0 THEN <<>>
    ELSE IF HasEntry(n, keyPlan[n])
    THEN <<n>> \o PathFrom(EntryOf(n, keyPlan[n]), fuel - 1)
    ELSE <<n>>

SelectedPath == PathFrom(StartNode, MaxNodeRuns + 1)

\* every finalize returns a key, no callback raises, the selected path ends
Regular ==
    /\ raising = {}
    /\ \A n \in Nodes : keyPlan[n] \in StringKeys
    /\ Len(SelectedPath) <= MaxNodeRuns

\* C8 as claimed: a flow run performs one node-run per step of the path the
\* outcome keys select, in that order, and none after the first unmatched
\* key; in the scenario exactly two, start then nodeB.
C8_OneRunPerRoutingStep ==
    (Regular /\ ~IsBatchFlow(flow) /\ fpc \in {"post", "done", "failed"}) =>
        /\ orchs[1].path = SelectedPath
        /\ Scenario => orchs[1].path = <<"A", "B">>

SequentialBatch == flow.cls \in {"BatchFlow", "AsyncBatchFlow"}

\* C9 as claimed: a sequential batch of flows runs the flow once per item,
\* item i + 1 not before every node-run of item i has finished, so that
\* after the run each of the n items has made the k node-runs of the path.
C9_BatchFlowInItemOrder ==
    (Regular /\ SequentialBatch /\ fpc # "idle") =>
        /\ \A i \in 1..(NOrchs - 1) :
              orchs[i + 1].pc # "idle" => orchs[i].pc = "ended"
        /\ fpc \in {"post", "done", "failed"} =>
              /\ NOrchs = Len(fitems)
              /\ \A i \in 1..NOrchs : orchs[i].path = SelectedPath

\* the run of unit path[j] of orchestration o is over
RunOver(o, j) == j < Len(o.path) \/ o.pc # "running"

\* C12 as claimed: when the run of a unit inside a flow raises (from its
\* prepare, its fallback or its finalize), the orchestration stops at that
\* unit and fails with that error, no successor of the unit is run, and the
\* flow's run neither reaches the flow's finalize nor returns.
C12_NodeFailureAbortsRun ==
    /\ \A i \in 1..NOrchs : \A j \in 1..Len(orchs[i].path) :
          (orchs[i].path[j] \in raising /\ RunOver(orchs[i], j)) =>
              /\ j = Len(orchs[i].path)
              /\ orchs[i].pc = "failed"
              /\ orchs[i].err = NodeRunError(orchs[i].path[j])
    /\ fpc \in {"post", "done"} =>
          \A i \in 1..NOrchs : \A j \in 1..Len(orchs[i].path) :
              orchs[i].path[j] \notin raising

\* the class-based and immutable flows, which carry params
CarriesParams == flow.impl \in {"ant", "o3"}

\* the effective configuration of item i's orchestration under key k: the
\* item's value if a batch item defines k, otherwise the flow's
ItemThenFlow(i, k) ==
    IF IsBatchFlow(flow) /\ k \in ItemDefined(i) THEN ItemOverride(i)[k] ELSE FlowParams[k]

C16_ItemOverridesFlow ==
    (CarriesParams /\ IsBatchFlow(flow)) =>
      \A i \in 1..NOrchs : \A j \in 1..Len(orchs[i].seen) : \A k \in ConfigKeys :
          /\ (k \in FlowDefined /\ k \in ItemDefined(i)) =>
                 orchs[i].seen[j][k] = ItemOverride(i)[k]
          /\ (k \in FlowDefined /\ k \notin ItemDefined(i)) =>
                 orchs[i].seen[j][k] = FlowParams[k]
          /\ \A h \in 1..NOrchs :
                 (h # i /\ ItemOverride(h)[k] # Absent) =>
                     orchs[i].seen[j][k] # ItemOverride(h)[k]

C16_Witness ==
    /\ flow = [impl |-> "o3", cls |-> "AsyncParallelBatchFlow"]
    /\ NOrchs = 2 /\ fpc = "done"
    /\ Len(orchs[1].seen) >= 1 /\ Len(orchs[2].seen) >= 1
    /\ orchs[1].seen[1]["i1"] = "item1"
    /\ orchs[2].seen[1]["i1"] = Absent
    /\ orchs[2].seen[1]["if"] = "item2"
    /\ orchs[2].seen[1]["f"] = "flow"

\* every branch has run its units, and each of them has written
AllBranchesWrote ==
    /\ raising = {}
    /\ NOrchs >= 2
    /\ \A i \in 1..NOrchs : orchs[i].pc = "ended" /\ Len(orchs[i].keys) >= 1

\* C17 as claimed: after a parallel batch of flows whose branches write the
\* same key, the caller's context holds what merging the branches' copies
\* back by input index leaves there, the write of the last item, in
\* whatever order the branches ran and completed.
C17_ParallelWritesMergedByIndex ==
    (OrchestratesInParallel(flow) /\ fpc = "done" /\ AllBranchesWrote) =>
        shared = WrittenBy(NOrchs)

\* C20: the compute phase of a flow fails with the error "Flow can't exec."
\* whenever it is invoked, and a run of the flow never invokes it.
C20_FlowCannotCompute ==
    /\ fexec.byRun = 0
    /\ fexec.calls > 0 => (fexec.thrown.isError /\ fexec.thrown = FlowCantExec)
    /\ fexec.calls = 0 => fexec.thrown = NoError

C20_Witness ==
    /\ fpc = "done" /\ flow.impl = "o3"
    /\ NOrchs >= 1 /\ Len(orchs[1].path) >= 2
    /\ fexec.calls = 1 /\ fexec.byRun = 0
    /\ fexec.thrown = FlowCantExec

\* C34: a flow run leaves the declared graph as it was: no step of a run,
\* of a sequential, batch or suspension-capable flow, changes the successor
\* table or the params of any declared unit, so the graph a second run
\* starts from is the graph the first one started from.
C34_RunLeavesGraphUnchanged == [][graph' = graph /\ declared' = declared]_vars

\* a run is over in which two units were run with params that are not
\* their declared ones
C34_Witness ==
    /\ fpc = "done"
    /\ \E i \in 1..NOrchs :
          /\ Len(orchs[i].path) >= 2
          /\ \A k \in 1..2 : orchs[i].seen[k] # declared[orchs[i].path[k]]
    /\ declared = [n \in Nodes |-> OwnParams(n)]

\* C35: when a unit's finalize returns no outcome key, null or undefined,
\* the flow routes as if the key were "default": it goes on with the
\* successor registered under "default" if the unit has one and ends
\* otherwise, in each of the three engines.
C35_NoKeyRoutesAsDefault ==
    \A i \in 1..NOrchs :
        \A j \in 1..Len(orchs[i].keys) :
            orchs[i].keys[j] \in {Undefined, Null} =>
                IF "default" \in TableOf(graph, orchs[i].path[j])
                THEN /\ Len(orchs[i].path) > j
                     /\ orchs[i].path[j + 1] = Successor(graph, orchs[i].path[j], "default")
                ELSE Len(orchs[i].path) = j

\* What holds: the same with undefined alone, and with null as well in the
\* immutable engine.
NoKeyRoutesAsDefaultButNull ==
    \A i \in 1..NOrchs :
        \A j \in 1..Len(orchs[i].keys) :
            (orchs[i].keys[j] = Undefined \/ (orchs[i].keys[j] = Null /\ flow.impl # "ds")) =>
                IF "default" \in TableOf(graph, orchs[i].path[j])
                THEN /\ Len(orchs[i].path) > j
                     /\ orchs[i].path[j + 1] = Successor(graph, orchs[i].path[j], "default")
                ELSE Len(orchs[i].path) = j

\* no unit occurs twice among the units an orchestration has run
RunsEachOnce(o) == \A j, k \in 1..Len(o.path) : j # k => o.path[j] # o.path[k]

\* the outcome keys lead around a cycle for ever: every finalize returns a
\* key, no callback raises, and the path the keys select does not end
Endless ==
    /\ raising = {}
    /\ \A n \in Nodes : keyPlan[n] \in StringKeys
    /\ Len(SelectedPath) > MaxNodeRuns

\* a run that has entered at least one orchestration
Orchestrating == fpc # "idle" /\ NOrchs >= 1

NeverEnds ==
    /\ fpc \notin {"post", "done", "failed"}
    /\ \A i \in 1..NOrchs : orchs[i].pc \notin {"ended", "failed"}

\* C36: on an acyclic graph a flow run runs each unit at most once in an
\* orchestration; the loop has no step bound, so on a graph with a cycle
\* whose outcome keys always match, the run never comes to an end.  (That
\* the run on an acyclic graph ends is FlowRunTerminates below.)
C36_AcyclicOnceCyclicForEver ==
    /\ (fpc # "idle" /\ graph \in Acyclic) => \A i \in 1..NOrchs : RunsEachOnce(orchs[i])
    /\ (Orchestrating /\ Endless) => NeverEnds

\* What holds: the same outside the class-based engine, whose runs fail at
\* once on any graph.
OnceAndForEverUnlessCloned ==
    /\ (fpc # "idle" /\ graph \in Acyclic) => \A i \in 1..NOrchs : RunsEachOnce(orchs[i])
    /\ (Orchestrating /\ Endless /\ SetParamsCallable(flow)) => NeverEnds
    /\ (Orchestrating /\ ~SetParamsCallable(flow)) =>
          \A i \in 1..NOrchs : orchs[i].pc \in {"idle", "failed"} /\ orchs[i].path = <<>>

\* on an acyclic graph every flow run comes to an end, returning or failing,
\* when every phase that is called returns or throws
FlowRunTerminates == (graph \in Acyclic) => <>(fpc \in {"done", "failed"})

(***************************************************************************)
(* Properties of parallel batches, of units and of flows.                  *)
(***************************************************************************)
\* the next step of element i's loop
StepOfTask(i) ==
    \/ StartAttempt(i) \/ ExecOk(i) \/ ExecFail(i)
    \/ WaitDone(i) \/ FallbackOk(i) \/ FallbackFail(i)

\* the next step of item i's orchestration
StepOfOrch(i) == OrchEnter(i) \/ NodeReturn(i) \/ NodeThrow(i)

\* the batch call has called every element's loop / item's orchestration
AllTasksEntered == \A i \in 1..NTasks : tasks[i].pc # "idle"

AllOrchsEntered == \A i \in 1..NOrchs : orchs[i].pc # "idle"

\* element i is suspended in compute, in its retry wait or in its fallback
TaskSuspended(i) == tasks[i].pc \in {"running", "wait", "fallback"}

\* C19: in a parallel batch of suspension-capable units, while an element
\* is suspended in compute, in its retry wait or in its fallback, every
\* other unfinished element can take its next step; in a parallel batch of
\* flows, while an item's orchestration is suspended in a node-run, every
\* other unfinished orchestration can take its next step.
C19_SuspensionDoesNotBlockSiblings ==
    /\ (UsesPromiseAll(unit) /\ upc \in {"exec", "failed"} /\ AllTasksEntered) =>
          \A i, j \in 1..NTasks :
              (i # j /\ TaskSuspended(i) /\ ~Finished(tasks[j])) => ENABLED StepOfTask(j)
    /\ (OrchestratesInParallel(flow) /\ fpc \in {"orch", "failed"} /\ AllOrchsEntered) =>
          \A i, j \in 1..NOrchs :
              (i # j /\ orchs[i].pc = "running" /\ orchs[j].pc = "running"
                     /\ Len(orchs[j].path) < MaxNodeRuns) => ENABLED StepOfOrch(j)

C19_Witness ==
    /\ unit = [impl |-> "ant", cls |-> "AsyncParallelBatchNode"]
    /\ upc = "exec" /\ NTasks = 2
    /\ tasks[1].pc = "wait" /\ tasks[1].waits = 1
    /\ tasks[2].pc = "done" /\ tasks[2].waits = 1 /\ tasks[2].calls = 2

\* item i's orchestration has failed without recovery: a unit's run raised
\* in it, or the orchestration itself threw
ItemFailed(i) ==
    \/ orchs[i].pc = "failed"
    \/ \E j \in 1..Len(orchs[i].path) :
          orchs[i].path[j] \in raising /\ RunOver(orchs[i], j)

\* C18 as claimed: in a parallel batch of units, once an element has failed
\* without recovery every unfinished sibling can still take its next step,
\* and when all have finished the batch call fails with an error; in a
\* parallel batch of flows, once an item has failed every sibling still in
\* a node-run can take its next step, and the batch call does not reach
\* the flow's finalize nor return: it fails with an error.
C18_FailureLeavesSiblingsAndEndsInError ==
    /\ (UsesPromiseAll(unit) /\ upc \in {"exec", "failed"} /\ AllTasksEntered) =>
          /\ \A i, j \in 1..NTasks :
                (i # j /\ tasks[i].pc = "failed" /\ ~Finished(tasks[j])) =>
                    ENABLED StepOfTask(j)
          /\ (\E i \in 1..NTasks : tasks[i].pc = "failed") =>
                IF upc = "failed" THEN thrown # NoError ELSE ENABLED JoinFail
    /\ (OrchestratesInParallel(flow) /\ AllOrchsEntered) =>
          /\ fpc \in {"orch", "failed"} =>
                \A i, j \in 1..NOrchs :
                    (i # j /\ ItemFailed(i) /\ orchs[j].pc = "running"
                           /\ Len(orchs[j].path) < MaxNodeRuns) => ENABLED StepOfOrch(j)
          /\ fpc \in {"post", "done"} => \A i \in 1..NOrchs : ~ItemFailed(i)
          /\ fpc = "failed" => fthrown # NoError

(***************************************************************************)
(* Properties of graph construction.                                       *)
(***************************************************************************)
\* C11: every registration call (addSuccessor, then, withAction(k).then and
\* their counterparts) made under a key that already has a successor on the
\* receiver emits a diagnostic that names the key: the latest such call
\* did, and there are as many diagnostics as such calls.
C11_OverwriteIsReported ==
    /\ lastReg.had =>
          /\ lastReg.warned
          /\ diags # <<>>
          /\ diags[Len(diags)] = lastReg.key
    /\ Len(diags) = overwrites

C11_Witness ==
    /\ lastReg.had /\ lastReg.via \in {"withAction", "cond", "when"}
    /\ overwrites = 2
    /\ Len(diags) = 2

\* this step does to the tables, the diagnostics and the returned node what
\* addSuccessor(target, k) on node object on does
SameAsAddSuccessor(on, target, k) ==
    /\ tables' = Registered(bimpl, tables, on, k, target)
    /\ lastReg'.ret = Returned(bimpl, tables, on, target)
    /\ diags' = IF OverwriteDetected(tables[on], k) THEN Append(diags, k) ELSE diags

\* after this step the table the call has produced maps k to target and
\* has under every other key what the receiver had
TableUpdated(on, target, k) ==
    /\ tables'[Produced(bimpl, tables, on)][k] = target
    /\ \A k2 \in TableKeys \ {k} :
          tables'[Produced(bimpl, tables, on)][k2] = tables[on][k2]

\* C21: on every unit then(u) has the effect and the return value of
\* addSuccessor(u, "default"), and withAction(k).then(u) (cond(k)(u),
\* when(k).then(u)) those of addSuccessor(u, k); afterwards the unit's
\* successor table (in the immutable engine: the table of the node the call
\* returns) maps that key to u and every other key is as it was.
C21_ChainingIsAddSuccessor ==
    [][\A on \in 1..MaxHandles, target \in 1..MaxHandles :
          /\ Then(on, target) =>
                /\ SameAsAddSuccessor(on, target, "default")
                /\ TableUpdated(on, target, "default")
          /\ \A k \in TableKeys :
                /\ WithActionThen(on, target, k) =>
                      /\ SameAsAddSuccessor(on, target, k)
                      /\ TableUpdated(on, target, k)
                /\ AddSuccessor(on, target, k) => TableUpdated(on, target, k)]_vars

C21_Witness ==
    /\ lastReg.via \in {"withAction", "cond", "when"}
    /\ lastReg.key = "success"
    /\ LET h == IF bimpl = "o3" THEN lastReg.ret ELSE lastReg.on
       IN  /\ tables[h]["success"] = lastReg.target
           /\ tables[h]["default"] # 0

\* C28: in the immutable engine every setParams, addSuccessor, then and
\* cond call returns a new node object and leaves the receiver (and every
\* other object) with the params and the successor table it had; the new
\* object has the receiver's class, retry policy (maxRetries, wait) and, if
\* a flow, start node, and differs from the receiver only in the field the
\* call sets: the params after setParams, the one key after a registration.
C28_ImmutableUpdate ==
    [][bimpl = "o3" =>
          /\ lastReg'.ret = Len(tables) + 1
          /\ Len(tables') = Len(tables) + 1
          /\ Len(objs') = Len(objs) + 1
          /\ \A h \in 1..Len(tables) : tables'[h] = tables[h] /\ objs'[h] = objs[h]
          /\ objs'[lastReg'.ret].cls = objs[lastReg'.on].cls
          /\ objs'[lastReg'.ret].maxRetries = objs[lastReg'.on].maxRetries
          /\ objs'[lastReg'.ret].wait = objs[lastReg'.on].wait
          /\ objs'[lastReg'.ret].start = objs[lastReg'.on].start
          /\ IF lastReg'.via = "setParams"
             THEN /\ tables'[lastReg'.ret] = tables[lastReg'.on]
                  /\ \A p \in {FlowParams, ItemOverride(1)} :
                        SetParamsOn(lastReg'.on, p) => objs'[lastReg'.ret].params = p
             ELSE /\ objs'[lastReg'.ret].params = objs[lastReg'.on].params
                  /\ tables'[lastReg'.ret][lastReg'.key] = lastReg'.target
                  /\ \A k \in TableKeys \ {lastReg'.key} :
                        tables'[lastReg'.ret][k] = tables[lastReg'.on][k]]_vars

C28_Witness ==
    /\ bimpl = "o3"
    /\ Len(objs) = 4
    /\ tables[1] = EmptyTable
    /\ tables[3]["success"] # 0
    /\ objs[3].maxRetries = 2 /\ objs[3].wait = 1 /\ objs[3].params = OwnParams("A")
    /\ lastReg.via = "setParams" /\ lastReg.on = 2 /\ lastReg.ret = 4
    /\ objs[4].cls = "Flow" /\ objs[4].start = 1 /\ objs[4].params = FlowParams
    /\ objs[2].params = OwnParams("B")

\* C29 as claimed: in the function-based engine a flow created from the node
\* that addSuccessor / when(k).then(next) returned runs that node: its
\* first node-run goes through prepare, compute and finalize without
\* raising and then routes to the successor registered under the outcome
\* key.
C29_ReturnedNodeIsRunnable ==
    (bimpl = "ds" /\ started # NoRun) =>
        /\ started.thrown = NoError
        /\ started.phases = <<"prep", "exec", "post">>
        /\ started.next = tables[started.start][started.key]

(***************************************************************************)
(* Properties of BaseAgent.                                                *)
(***************************************************************************)
Smaller(a, b) == IF a < b THEN a ELSE b

\* C22: for an agent with maxSteps = M, fresh or reset, the first M calls
\* of validateStep return and every later call throws AgentError "Maximum
\* number of steps reached" and leaves currentStep as it was; currentStep
\* is always within 0..maxSteps.
C22_StepLimit ==
    /\ agent.currentStep \in 0..agent.maxSteps
    /\ acalls.ok = Smaller(acalls.made, agent.maxSteps)
    /\ agent.currentStep = acalls.ok
    /\ alast.op = "validateStep" =>
          IF acalls.made > agent.maxSteps
          THEN /\ alast.threw = AgentError("Maximum number of steps reached")
               /\ agent.currentStep = alast.before.currentStep
          ELSE /\ alast.threw = NotThrown
               /\ agent.currentStep = alast.before.currentStep + 1

C22_Witness ==
    /\ agent.maxSteps = 1
    /\ acalls = [made |-> 3, ok |-> 1]
    /\ alast.op = "validateStep"
    /\ alast.threw.name = "AgentError"
    /\ alast.before.currentStep = 1

\* C23: executeWithRetry(fn, retries) invokes fn until its first success:
\* when fn fails k < retries times and then succeeds it is invoked k + 1
\* times and its value is returned; fn is never invoked more than retries
\* times; when all retries invocations fail an AgentExecutionError is
\* thrown, and only then.
C23_RetryUntilFirstSuccess ==
    /\ retry.calls <= retry.retries
    /\ retry.pc = "returned" =>
          /\ retry.plan < retry.retries
          /\ retry.calls = retry.plan + 1
          /\ retry.result = FnValue
    /\ retry.pc = "thrown" =>
          /\ retry.plan >= retry.retries
          /\ retry.calls = retry.retries
          /\ retry.thrown.name = "AgentExecutionError"
    /\ retry.pc \in {"loop", "delay"} => retry.calls <= retry.plan

C23_Witness ==
    /\ retry.pc = "returned"
    /\ retry.retries = DefaultRetries
    /\ retry.plan = 2
    /\ retry.calls = 3
    /\ retry.result = FnValue

\* C24: reset brings the agent to the state of a new agent with the same
\* maxSteps, whatever addLog and validateStep calls came before: the log is
\* empty, getLastStep returns null, and of the validateStep calls made
\* since the reset the first maxSteps return and no other.
C24_ResetRestoresFresh ==
    /\ alast.op = "reset" =>
          /\ agent = NewAgent(alast.before.maxSteps)
          /\ Len(agent.logs) = 0
          /\ GetLastStep(agent) = Null
    /\ aresets > 0 =>
          /\ agent.maxSteps = alast.before.maxSteps
          /\ acalls.ok = Smaller(acalls.made, agent.maxSteps)

C24_Witness ==
    /\ alast.op = "reset"
    /\ alast.before.currentStep = 2
    /\ Len(alast.before.logs) = 2
    /\ agent = NewAgent(2)

(***************************************************************************)
(* Properties of the state machine.                                        *)
(***************************************************************************)
\* the latest dispatch call was made in a state of the machine and is over
Dispatched == disp.pc = "idle" /\ disp.outcome # "-" /\ disp.from \in StateIds

\* the latest call's event has a matching transition in the state it was
\* dispatched in, and the call picked the first of them in declaration order
SomeMatches == \E i \in 1..Len(machine.trans[disp.from]) : Matches(machine.trans[disp.from][i], disp.ev)

PickedFirst ==
    /\ disp.pick \in 1..Len(machine.trans[disp.from])
    /\ Matches(machine.trans[disp.from][disp.pick], disp.ev)
    /\ \A j \in 1..(disp.pick - 1) : ~Matches(machine.trans[disp.from][j], disp.ev)

TargetOfPick == machine.trans[disp.from][disp.pick].target

\* the hooks of a transition from state a to state b, in order, each with the
\* value of currentState at the time it runs; an absent hook is not run
ExitHooks(a) == IF a \in machine.hooked THEN <<HookCall("onExit", a, a)>> ELSE <<>>

EnterHooks(b) == IF b \in machine.hooked THEN <<HookCall("onEnter", b, b)>> ELSE <<>>

TransitionHooks(a, b) == ExitHooks(a) \o EnterHooks(b) \o <<HookCall("execute", b, b)>>

NoMatchIgnored ==
    (Dispatched /\ ~SomeMatches)
        => disp.outcome = "ignored" /\ mcur = disp.from /\ disp.log = <<>>

\* C30: after dispatch(event) in a state that has a matching
\* transition, the first matching transition in declaration order was taken:
\* onExit of the state left ran, then currentState became the target, then
\* onEnter and execute of the target ran, once each in that order; with no
\* matching transition currentState is unchanged and no hook ran.
C30_DispatchTakesFirstMatch ==
    /\ (Dispatched /\ SomeMatches)
         => /\ PickedFirst
            /\ disp.outcome = "transitioned"
            /\ mcur = TargetOfPick
            /\ disp.log = TransitionHooks(disp.from, TargetOfPick)
    /\ NoMatchIgnored

\* What dispatch does in every case: the first matching transition is
\* picked, and the order above holds when its target is a state of the
\* machine; when the target names no state, onExit of the state left runs,
\* currentState becomes the target and dispatch throws "State <target> not
\* found in state machine" without running onEnter or execute.  While the
\* call is under way the hooks run so far are a prefix of that order and
\* currentState is already the target when onEnter runs.
DispatchOutcome ==
    /\ (Dispatched /\ SomeMatches)
         => /\ PickedFirst
            /\ mcur = TargetOfPick
            /\ IF TargetOfPick \in StateIds
               THEN /\ disp.outcome = "transitioned"
                    /\ disp.log = TransitionHooks(disp.from, TargetOfPick)
               ELSE /\ disp.outcome = "threw"
                    /\ disp.error = StateNotFound(TargetOfPick)
                    /\ disp.log = ExitHooks(disp.from)
    /\ NoMatchIgnored
    /\ disp.pc = "exit" => PickedFirst /\ mcur = disp.from /\ disp.log = <<>>
    /\ disp.pc = "enter" => mcur = TargetOfPick /\ disp.log = ExitHooks(disp.from)
    /\ disp.pc = "execute" =>
         mcur = TargetOfPick /\ disp.log = ExitHooks(disp.from) \o EnterHooks(mcur)

\* a transition between two states with hooks was taken although a later
\* transition to another target matched the event too
FirstOfTwoMatchesTaken ==
    /\ Dispatched
    /\ disp.outcome = "transitioned"
    /\ Len(disp.log) = 3
    /\ mcur # disp.from
    /\ \E j \in (disp.pick + 1)..Len(machine.trans[disp.from]) :
           /\ Matches(machine.trans[disp.from][j], disp.ev)
           /\ machine.trans[disp.from][j].target # TargetOfPick

\* the hooks run so far, in order, with what each was handed
HooksRun == 1..Len(mctx.seen)

SharedIsStartArgument ==
    (mctx.started /\ mctx.startArg # <<>>)
        => \A i \in HooksRun : mctx.seen[i].shared = mctx.startArg[1]

WritesStayVisible ==
    \A i, j \in HooksRun :
        i < j => Written(mctx.seen[i].hook, mctx.seen[i].of) \in mctx.seen[j].state

EventVisibleAfterDispatch ==
    (disp.outcome = "transitioned" /\ disp.pc = "idle")
        => mctx.seen[Len(mctx.seen)].event = disp.ev

\* C31: all hooks of a machine observe one persistent context: the shared
\* context passed to start is the shared value of every hook from the
\* initial state's onEnter and execute on, every value a hook wrote to
\* context.state is in the context.state of the hooks that run after it,
\* and the event recorded by dispatch is seen by the hooks it runs.
C31_OnePersistentContext ==
    /\ SharedIsStartArgument
    /\ WritesStayVisible
    /\ EventVisibleAfterDispatch

\* What the contexts are in every case: every hook is handed the shared
\* value the machine was created with, whatever start was called with; the
\* event is seen by onEnter and execute of the dispatch; and a hook sees in
\* context.state only what the hooks of the same call wrote to the same
\* getContext() object, which is onEnter's write for execute and nothing else.
ContextPerCall ==
    /\ \A i \in HooksRun : mctx.seen[i].shared = mctx.shared
    /\ EventVisibleAfterDispatch
    /\ \A i \in HooksRun :
          mctx.seen[i].state =
              IF mctx.seen[i].hook = "execute" /\ mctx.seen[i].of \in machine.hooked
              THEN {Written("onEnter", mctx.seen[i].of)}
              ELSE {}

(***************************************************************************)
(* Properties of the adapter.                                              *)
(***************************************************************************)
\* the node's run and the execute of its state are both over
BothRan == unit = ProcessingNode /\ upc \in {"done", "failed"} /\ adapted.done

\* C32: the state made by nodeToState executes the node as the node's run
\* does: as many compute attempts and waits under the retry policy, the
\* fallback on exhaustion, the same values handed to finalize, and the same
\* outcome for the caller, the result or the error.
C32_AdapterRunsAsNode ==
    BothRan =>
        /\ adapted.calls = tasks[1].calls
        /\ adapted.waits = tasks[1].waits
        /\ adapted.fbCalls = tasks[1].fbCalls
        /\ adapted.postCalls = postCalls
        /\ adapted.postArgs = postArgs
        /\ adapted.postResult = result
        /\ adapted.threw = thrown

\* What holds: when compute succeeds at its first call under a policy of at
\* least one attempt, the two agree; execute never throws.
AdapterAgreesWithoutFailure ==
    BothRan =>
        /\ adapted.threw = NoError
        /\ (tasks[1].plan = 0 /\ maxRetries >= 1) =>
              /\ adapted.calls = tasks[1].calls
              /\ adapted.postArgs = postArgs
              /\ adapted.postResult = result
              /\ thrown = NoError

====
